---- MODULE Spec2Model ----
(***************************************************************************)
(* A model of the retrieval-augmented generation pipeline of               *)
(* backend/app/rag: MessageChunker, EmbeddingGenerator, RAGStorage,        *)
(* ContextAssembler, RAGQueryProcessor and LLMProcessor, and of the bulk   *)
(* backfill of backend/app/scripts.  Every component has its own           *)
(* specification (SpecChunker, SpecContext, SpecEmbed, SpecStore,          *)
(* SpecStore2, SpecSearch, SpecQuery, SpecQueryRepo, SpecLLM, SpecSim,     *)
(* SpecBackfill) over the variables that component owns; the variables of  *)
(* the other components stay at their initial value.                       *)
(***************************************************************************)
EXTENDS Integers, Sequences, FiniteSets, TLC

(***************************************************************************)
(* Bounds of the model                                                     *)
(***************************************************************************)
\* longest enumerated text, in characters
MaxLen == 5
\* largest chunk_size enumerated
MaxSize == 5
\* largest chunk_overlap enumerated
MaxOverlap == 3
\* iterations of the chunking loop explored past the number of tokens
ExtraIter == 2

None == "None"

Min(a, b) == IF a < b THEN a ELSE b
Max(a, b) == IF a > b THEN a ELSE b
\* ceil(a / b) for a >= 0, b > 0
Ceil(a, b) == (a + b - 1) \div b

\* Python's s[a:b] on a list (negative positions count from the end)
PySlice(s, a, b) ==
    LET n  == Len(s)
        lo == IF a < 0 THEN Max(n + a, 0) ELSE Min(a, n)
        hi == IF b < 0 THEN Max(n + b, 0) ELSE Min(b, n)
    IN  IF lo >= hi THEN << >> ELSE SubSeq(s, lo + 1, hi)

(***************************************************************************)
(* State                                                                   *)
(***************************************************************************)
\* MessageChunker.create_chunks
VARIABLES
    text,           \* create_chunks argument
    metadata,       \* create_chunks argument (None or a dict)
    chunk_size,     \* self.chunk_size
    chunk_overlap,  \* self.chunk_overlap
    tokens,         \* local: tokenizer.encode(text)
    start,          \* local: left edge of the next window
    chunk_index,    \* local
    chunks,         \* local: the list under construction / returned
    windows,        \* history: <<start, end>> of every window sliced
    pcChunker       \* "call", "loop", "done"

chunkerVars == <<text, metadata, chunk_size, chunk_overlap, tokens, start,
                 chunk_index, chunks, windows, pcChunker>>

\* ContextAssembler.assemble_context
VARIABLES
    retrieved,         \* assemble_context argument `chunks`
    max_tokens,        \* self.max_tokens
    token_buffer,      \* self.token_buffer
    include_metadata,  \* assemble_context argument
    context_data,      \* the returned dictionary, None before the call
    pcContext          \* "call", "done"

contextVars == <<retrieved, max_tokens, token_buffer, include_metadata,
                 context_data, pcContext>>

\* EmbeddingGenerator.generate_embeddings
VARIABLES
    embChunks,      \* generate_embeddings argument `chunks`
    batch_size,     \* self.batch_size
    batch_start,    \* loop variable i of range(0, len(chunks), batch_size)
    results,        \* local: the records built so far
    providerLog,    \* history: one [input, data] per embeddings.create call
    embReturned,    \* the list handed to the caller, None before
    pcEmbed         \* "loop", "returned", "raised"

embedVars == <<embChunks, batch_size, batch_start, results, providerLog, embReturned,
               pcEmbed>>

\* RAGStorage.store_chunks and the database session
VARIABLES
    committedChunks,      \* committed rows of message_chunks
    committedEmbeddings,  \* committed rows of message_embeddings
    pendingChunks,        \* rows of the session's open transaction
    pendingEmbeddings,
    nextId,               \* source of fresh row identifiers
    callsMade,            \* store_chunks calls started so far
    call                  \* per caller: the frame of its store_chunks call

storeVars == <<committedChunks, committedEmbeddings, pendingChunks,
               pendingEmbeddings, nextId, callsMade, call>>

\* RAGStorage.search_similar
VARIABLES
    corpus,           \* the stored chunks with their embeddings, in table order
    query_embedding,  \* search_similar argument
    threshold,        \* search_similar argument
    limit,            \* search_similar argument
    similar_chunks,   \* the list search_similar returned
    pcSearch          \* "call", "done", "raised"

searchVars == <<corpus, query_embedding, threshold, limit, similar_chunks,
                pcSearch>>

\* RAGQueryProcessor.process_query; an unspecified optional argument is
\* << >>, a specified one is <<value>>
VARIABLES
    query_text,            \* argument
    user_id,               \* argument
    top_k,                 \* argument
    similarity_threshold,  \* argument
    stream_response,       \* argument
    stages,                \* history: collaborator calls in order
    response_data,         \* local: what the generation stage produced
    store_query_args,      \* history: arguments of the store_query call
    queryResult,           \* the returned dictionary, None before
    queryError,            \* the exception raised to the caller, None if none
    pcQuery                \* position in process_query

queryVars == <<query_text, user_id, top_k, similarity_threshold,
               stream_response, stages,
               response_data, store_query_args, queryResult, queryError,
               pcQuery>>

\* LLMProcessor: one generate_rag_response call and one
\* generate_stream_response call on the same arguments and provider output
VARIABLES
    model_name,           \* self.model_name, as a sequence of name parts
    llm_query,            \* argument query
    llm_context,          \* argument context
    username,             \* argument username
    provider_deltas,      \* the texts of the chunks of the provider's stream
    provider_fail_at,     \* <<k>>: the stream fails after k chunks; << >>: never
    provider_error,       \* str(e) of the exception the provider raises
    rag_provider_fails,   \* whether the non-streaming provider call raises
    rag_calls,            \* history: provider calls of generate_rag_response
    rag_request,          \* history: the request of generate_rag_response
    rag_result,           \* the dictionary returned, None before
    rag_error,            \* the exception raised to the caller, None if none
    pcRag,                \* "call", "returned", "raised"
    stream_request,       \* history: the request of generate_stream_response
    stream_pos,           \* provider chunks consumed so far
    events,               \* the strings the generator has yielded
    pcStream,             \* "start", "iter", "ended", "closed"
    consumer              \* "idle", "waiting" for the next event, "stopped"

llmVars == <<model_name, llm_query, llm_context, username, provider_deltas,
             provider_fail_at, provider_error, rag_provider_fails,
             pcStream, consumer, stream_pos, events, stream_request,
             pcRag, rag_calls, rag_request, rag_result, rag_error>>

\* EmbeddingGenerator.compute_similarity
VARIABLES
    embedding1,         \* argument
    embedding2,         \* argument
    similarity_result,  \* what the call produced
    pcSim               \* "call", "returned", "raised"

simVars == <<embedding1, embedding2, similarity_result, pcSim>>

\* scripts/process_existing_messages.py: process_messages, run once or
\* run again over the same messages
VARIABLES
    messages,       \* argument: the messages, each an id and a content
    msg_index,      \* position of the for loop (1-based), 0 before it
    msg_chunks,     \* local chunks: how many chunks the message gave
    processed,      \* local counter
    run,            \* history: which run of the backfill this is
    message_chunks, \* the committed rows of table message_chunks
    row_id,         \* source of fresh row identifiers
    backfillLog,    \* history: the collaborator calls, per run and message
    pcBackfill      \* position in process_messages

backfillVars == <<messages, msg_index, msg_chunks, processed, run,
                  message_chunks, row_id, backfillLog, pcBackfill>>

\* the collaborators RAGQueryProcessor was constructed with
VARIABLES
    repository       \* the collaborators that are the repository's classes

wiringVars == <<repository>>

vars == <<chunkerVars, contextVars, embedVars, storeVars, searchVars,
          queryVars, llmVars, simVars, backfillVars, wiringVars>>

\* what the actions of one component leave alone
exceptChunker == <<contextVars, embedVars, storeVars, searchVars, queryVars,
    llmVars,
    simVars,
    backfillVars,
    wiringVars>>
exceptContext == <<chunkerVars, embedVars, storeVars, searchVars, queryVars,
    llmVars,
    simVars,
    backfillVars,
    wiringVars>>
exceptEmbed == <<chunkerVars, contextVars, storeVars, searchVars, queryVars,
    llmVars,
    simVars,
    backfillVars,
    wiringVars>>
exceptStore == <<chunkerVars, contextVars, embedVars, searchVars, queryVars,
    llmVars,
    simVars,
    backfillVars,
    wiringVars>>
exceptSearch == <<chunkerVars, contextVars, embedVars, storeVars, queryVars,
    llmVars,
    simVars,
    backfillVars,
    wiringVars>>
exceptQuery == <<chunkerVars, embedVars, storeVars, llmVars,
    simVars,
    backfillVars,
    wiringVars>>
exceptLLM == <<chunkerVars, contextVars, embedVars, storeVars, searchVars,
               queryVars,
    simVars,
    backfillVars,
    wiringVars>>
exceptSim == <<chunkerVars, contextVars, embedVars, storeVars, searchVars, queryVars, llmVars,
    backfillVars,
    wiringVars>>
exceptBackfill == <<chunkerVars, contextVars, embedVars, storeVars, searchVars, queryVars, llmVars, simVars,
    wiringVars>>
exceptWiring == <<chunkerVars, contextVars, embedVars, storeVars, searchVars, queryVars, llmVars, simVars, backfillVars>>

\* the value a component's variables keep while another component runs
IdleChunker ==
    /\ text = << >> /\ metadata = None /\ chunk_size = 1 /\ chunk_overlap = 0
    /\ tokens = << >> /\ start = 0 /\ chunk_index = 0 /\ chunks = << >>
    /\ windows = << >> /\ pcChunker = "idle"

IdleContext ==
    /\ retrieved = << >> /\ max_tokens = 0 /\ token_buffer = 0
    /\ include_metadata = FALSE /\ context_data = None /\ pcContext = "idle"

IdleEmbed ==
    /\ embChunks = << >> /\ batch_size = 1 /\ batch_start = 0 /\ results = << >>
    /\ providerLog = << >> /\ embReturned = None /\ pcEmbed = "idle"

IdleStore ==
    /\ committedChunks = {} /\ committedEmbeddings = {} /\ pendingChunks = {}
    /\ pendingEmbeddings = {} /\ nextId = 1 /\ callsMade = 0 /\ call = << >>

IdleSearch ==
    /\ corpus = << >> /\ query_embedding = 0 /\ threshold = 0 /\ limit = 0
    /\ similar_chunks = << >> /\ pcSearch = "idle"

IdleQuery ==
    /\ query_text = "" /\ user_id = None
    /\ top_k = << >> /\ similarity_threshold = << >> /\ stream_response = FALSE
    /\ stages = << >> /\ response_data = None /\ store_query_args = None
    /\ queryResult = None /\ queryError = None /\ pcQuery = "idle"

IdleLLM ==
    /\ model_name = << >> /\ llm_query = "" /\ llm_context = ""
    /\ username = "" /\ provider_deltas = << >> /\ provider_fail_at = << >>
    /\ provider_error = None /\ rag_provider_fails = FALSE
    /\ rag_calls = 0
    /\ rag_request = None /\ rag_result = None /\ rag_error = None
    /\ pcRag = "idle" /\ stream_request = None /\ stream_pos = 0
    /\ events = << >> /\ pcStream = "idle" /\ consumer = "none"

IdleSim ==
    /\ embedding1 = << >> /\ embedding2 = << >>
    /\ similarity_result = [kind |-> "none"] /\ pcSim = "idle"

IdleBackfill ==
    /\ messages = << >> /\ msg_index = 0 /\ msg_chunks = 0 /\ processed = 0
    /\ run = 0 /\ message_chunks = {} /\ row_id = 1 /\ backfillLog = << >>
    /\ pcBackfill = "idle"

\* every collaborator is an object that accepts the calls of process_query
IdleWiring ==
    repository = {}

(***************************************************************************)
(* Texts and the tokenizer.  A text is a sequence of characters; a token   *)
(* is a non-empty sequence of characters.  The tokenizer is a small        *)
(* byte-pair encoding: a blank followed by a letter is one token, every    *)
(* other character is a token of its own.                                  *)
(***************************************************************************)
Chars == {" ", "a"}

RECURSIVE TextsOfLen(_)
TextsOfLen(n) ==
    IF n = 0 THEN {<< >>}
    ELSE {Append(t, c) : t \in TextsOfLen(n - 1), c \in Chars}

\* the 12-token text of the chunk_size=5, chunk_overlap=2 scenario
LongText ==
    <<"a", " ", "a", " ", "a", " ", "a", " ", "a", " ", "a", " ", "a",
      " ", "a", " ", "a", " ", "a", " ", "a", " ", "a">>

Texts == UNION {TextsOfLen(n) : n \in 0..MaxLen} \cup {LongText}

\* text.strip(): leading and trailing blanks removed
RECURSIVE LStrip(_)
LStrip(t) ==
    IF t = << >> THEN << >>
    ELSE IF Head(t) = " " THEN LStrip(Tail(t)) ELSE t

RECURSIVE RStrip(_)
RStrip(t) ==
    IF t = << >> THEN << >>
    ELSE IF t[Len(t)] = " " THEN RStrip(SubSeq(t, 1, Len(t) - 1)) ELSE t

Strip(t) == RStrip(LStrip(t))

\* tokenizer.encode
RECURSIVE encode(_)
encode(t) ==
    IF t = << >> THEN << >>
    ELSE IF Len(t) >= 2 /\ t[1] = " " /\ t[2] = "a"
         THEN <<SubSeq(t, 1, 2)>> \o encode(SubSeq(t, 3, Len(t)))
         ELSE <<SubSeq(t, 1, 1)>> \o encode(Tail(t))

\* tokenizer.decode
RECURSIVE decode(_)
decode(toks) ==
    IF toks = << >> THEN << >> ELSE Head(toks) \o decode(Tail(toks))

(***************************************************************************)
(* MessageChunker                                                          *)
(***************************************************************************)
TextChunk(content, index, md, token_count) ==
    [content |-> content, index |-> index, metadata |-> md,
     token_count |-> token_count]

\* the chunk of a text that fits in one chunk, as a bug would build it:
\* the content stripped of surrounding blanks
ShortChunkStripped(t, toks, md) == TextChunk(Strip(t), 0, md, Len(toks))

\* chunker.py 60-65: the single chunk of a short text
ShortChunk(t, toks, md) == TextChunk(t, 0, md, Len(toks))

InitChunker ==
    /\ text \in Texts
    /\ metadata \in {None, "md"}
    /\ chunk_size \in 1..MaxSize
    /\ chunk_overlap \in 0..MaxOverlap
    /\ tokens = << >>
    /\ start = 0
    /\ chunk_index = 0
    /\ chunks = << >>
    /\ windows = << >>
    /\ pcChunker = "call"
    \* the other components are idle
    /\ IdleContext /\ IdleEmbed /\ IdleStore /\ IdleSearch /\ IdleQuery /\ IdleLLM
    /\ IdleSim
    /\ IdleBackfill
    /\ IdleWiring

\* chunker.py 51-52: empty or blank text yields no chunk
CreateChunksBlank ==
    /\ pcChunker = "call"
    /\ Strip(text) = << >>
    /\ pcChunker' = "done"
    /\ UNCHANGED <<text, metadata, chunk_size, chunk_overlap, tokens, start,
                   chunk_index, chunks, windows>>
    /\ UNCHANGED exceptChunker

\* chunker.py 54-65: a text of at most chunk_size tokens is one chunk
CreateChunksShort ==
    /\ pcChunker = "call"
    /\ Strip(text) # << >>
    /\ Len(encode(text)) <= chunk_size
    /\ tokens' = encode(text)
    /\ chunks' = <<ShortChunk(text, tokens',
                              IF metadata = None THEN "{}" ELSE metadata)>>
    /\ pcChunker' = "done"
    /\ UNCHANGED <<text, metadata, chunk_size, chunk_overlap, start,
                   chunk_index, windows>>
    /\ UNCHANGED exceptChunker

\* chunker.py 54-69: a longer text enters the window loop
CreateChunksLong ==
    /\ pcChunker = "call"
    /\ Strip(text) # << >>
    /\ Len(encode(text)) > chunk_size
    /\ tokens' = encode(text)
    /\ start' = 0
    /\ chunk_index' = 0
    /\ pcChunker' = "loop"
    /\ UNCHANGED <<text, metadata, chunk_size, chunk_overlap, chunks, windows>>
    /\ UNCHANGED exceptChunker

\* chunker.py 88: start = end - self.chunk_overlap
NextStart(end) == end - chunk_overlap

\* chunker.py 71-89: one iteration of the while loop
LoopIter ==
    /\ pcChunker = "loop"
    /\ start < Len(tokens)
    /\ Len(chunks) < Len(tokens) + ExtraIter
    /\ LET end          == Min(start + chunk_size, Len(tokens))
           chunk_tokens == PySlice(tokens, start, end)
       IN  /\ chunks' = Append(chunks,
                  TextChunk(decode(chunk_tokens), chunk_index,
                            IF metadata = None THEN "{}" ELSE metadata,
                            Len(chunk_tokens)))
           /\ windows' = Append(windows, <<start, end>>)
           /\ start' = NextStart(end)
    /\ chunk_index' = chunk_index + 1
    /\ UNCHANGED <<text, metadata, chunk_size, chunk_overlap, tokens, pcChunker>>
    /\ UNCHANGED exceptChunker

\* chunker.py 71, 91: the loop condition fails and the list is returned
LoopExit ==
    /\ pcChunker = "loop"
    /\ ~(start < Len(tokens))
    /\ pcChunker' = "done"
    /\ UNCHANGED <<text, metadata, chunk_size, chunk_overlap, tokens, start,
                   chunk_index, chunks, windows>>
    /\ UNCHANGED exceptChunker

NextChunker ==
    \/ CreateChunksBlank
    \/ CreateChunksShort
    \/ CreateChunksLong
    \/ LoopIter
    \/ LoopExit

(***************************************************************************)
(* Properties of MessageChunker (SpecChunker)                              *)
(***************************************************************************)
\* tokens of the text, whatever the position of the call
L == Len(encode(text))
\* a text that takes the window loop under a valid overlap (blank texts
\* return no chunk at chunker.py 51-52 and are set aside)
LongValid == Strip(text) # << >> /\ L > chunk_size /\ chunk_overlap < chunk_size
Step == chunk_size - chunk_overlap

\* C2: a non-blank text of L > chunk_size tokens, with chunk_overlap < chunk_size, is
\* cut into exactly ceil((L - chunk_overlap) / (chunk_size - chunk_overlap))
\* chunks, indexed 0..n-1, chunk k starting at token k * (chunk_size -
\* chunk_overlap): no window is sliced anywhere else, never more than n
\* windows are sliced, and the returned list has exactly n chunks.
C2_ChunkCountAndOffsets ==
    LongValid =>
        /\ \A i \in 1..Len(chunks) :
              /\ chunks[i].index = i - 1
              /\ windows[i][1] = (i - 1) * Step
        /\ Len(chunks) <= Ceil(L - chunk_overlap, Step)
        /\ pcChunker = "done" => Len(chunks) = Ceil(L - chunk_overlap, Step)

\* C3: consecutive chunks share exactly chunk_overlap tokens (the last
\* chunk_overlap tokens of chunk k are the first chunk_overlap tokens of
\* chunk k+1), except possibly the pair ending in the final chunk, and the
\* final chunk is the one whose window ends at the last token of the text:
\* no chunk follows a window that reached the last token.
C3_OverlapAndFinalChunk ==
    LongValid =>
        /\ \A i \in 1..(Len(chunks) - 2) :
              /\ windows[i][2] - windows[i + 1][1] = chunk_overlap
              /\ PySlice(tokens, windows[i][2] - chunk_overlap, windows[i][2])
                    = PySlice(tokens, windows[i + 1][1],
                              windows[i + 1][1] + chunk_overlap)
        /\ \A i \in 1..Len(chunks) : windows[i][2] = L => i = Len(chunks)
        /\ (pcChunker = "done" /\ chunks # << >>)
              => windows[Len(chunks)][2] = L

\* C4: a non-blank text of at most chunk_size tokens is returned as exactly
\* one chunk with index 0, the whole text as content and token_count L,
\* whatever chunk_overlap is.
C4_ShortTextOneChunk ==
    (Strip(text) # << >> /\ L <= chunk_size) =>
        /\ Len(chunks) <= 1
        /\ pcChunker = "done" =>
              /\ Len(chunks) = 1
              /\ chunks[1].index = 0
              /\ chunks[1].content = text
              /\ chunks[1].token_count = L
              /\ Len(encode(chunks[1].content)) = L

\* a short text with a leading blank was chunked under an overlap that is
\* not below chunk_size
C4_Witness ==
    /\ pcChunker = "done"
    /\ Len(chunks) = 1
    /\ L <= chunk_size
    /\ L >= 2
    /\ text[1] = " "
    /\ chunk_overlap >= chunk_size

\* C25: with 0 <= chunk_overlap < chunk_size create_chunks terminates for
\* every text: the window start strictly advances from one window to the
\* next, no window follows the one that reached the last token, and so no
\* more windows than tokens are ever sliced.
C25_StartAdvancesUntilEnd ==
    chunk_overlap < chunk_size =>
        /\ \A i \in 1..(Len(windows) - 1) :
              /\ windows[i + 1][1] > windows[i][1]
              /\ windows[i][2] < Len(tokens)
        /\ Len(windows) <= Len(tokens)

\* C19: with chunk_overlap >= chunk_size no chunk is ever produced: the
\* configuration is rejected with an error before any chunk exists.
C19_OverlapRejected ==
    chunk_overlap >= chunk_size =>
        /\ chunks = << >>
        /\ pcChunker # "done"

(***************************************************************************)
(* ContextAssembler.  A retrieved chunk is described by its similarity     *)
(* and by the token counts of its content and of its formatted metadata    *)
(* block (header and separators included).                                 *)
(***************************************************************************)
\* most retrieved chunks handed to assemble_context
MaxCtx == 3
\* similarities are 0..MaxSim
MaxSim == 1
\* largest token count of a chunk's content
MaxContent == 2
\* largest token count of a chunk's metadata block
MaxMeta == 1
\* largest max_tokens enumerated
MaxTokens == 3
\* largest token_buffer enumerated
MaxBuffer == 2


RetrievedChunk ==
    [similarity : 0..MaxSim, content_tokens : 0..MaxContent,
     meta_tokens : 1..MaxMeta]

RECURSIVE SeqsUpTo(_, _)
SeqsUpTo(S, n) ==
    IF n = 0 THEN {<< >>}
    ELSE LET shorter == SeqsUpTo(S, n - 1)
         IN  shorter \cup {Append(q, x) : q \in {r \in shorter : Len(r) = n - 1},
                                          x \in S}

\* context.py 66-70: sorted(chunks, key=similarity, reverse=True); the
\* result lists positions of `chunks`; equal keys keep their input order
RECURSIVE InsertDesc(_, _, _)
InsertDesc(chs, sorted, i) ==
    IF sorted = << >> THEN <<i>>
    ELSE IF chs[Head(sorted)].similarity >= chs[i].similarity
         THEN <<Head(sorted)>> \o InsertDesc(chs, Tail(sorted), i)
         ELSE <<i>> \o sorted

RECURSIVE SortedUpTo(_, _)
SortedUpTo(chs, n) ==
    IF n = 0 THEN << >>
    ELSE InsertDesc(chs, SortedUpTo(chs, n - 1), n)

sorted_chunks(chs) == SortedUpTo(chs, Len(chs))

\* context.py 78-83: token count of the chunk text put in the context
chunk_tokens(c, with_metadata) ==
    IF with_metadata THEN c.meta_tokens + c.content_tokens
    ELSE c.content_tokens

\* the budget test without the chunk under consideration
OverBudgetIgnoringChunk(total_tokens, ctokens) ==
    total_tokens > max_tokens - token_buffer

\* context.py 84: the chunk does not fit in the remaining budget
OverBudget(total_tokens, ctokens) ==
    total_tokens + ctokens > max_tokens - token_buffer

\* the loop going on past a chunk that does not fit (continue, not break)
RECURSIVE AccumulateSkipping(_, _, _, _)
AccumulateSkipping(chs, order, k, acc) ==
    IF k > Len(order) THEN acc
    ELSE LET ct == chunk_tokens(chs[order[k]], include_metadata)
         IN  IF OverBudget(acc.total_tokens, ct)
             THEN AccumulateSkipping(chs, order, k + 1, acc)
             ELSE AccumulateSkipping(chs, order, k + 1,
                     [formatted_chunks |-> Append(acc.formatted_chunks, order[k]),
                      total_tokens     |-> acc.total_tokens + ct,
                      chunks_used      |-> acc.chunks_used + 1])

\* context.py 72-89: the accumulation loop over sorted_chunks, from
\* position k on; acc is the state of formatted_chunks / total_tokens /
\* chunks_used
RECURSIVE Accumulate(_, _, _, _)
Accumulate(chs, order, k, acc) ==
    IF k > Len(order) THEN acc
    ELSE LET ct == chunk_tokens(chs[order[k]], include_metadata)
         IN  IF OverBudget(acc.total_tokens, ct) THEN acc
             ELSE Accumulate(chs, order, k + 1,
                     [formatted_chunks |-> Append(acc.formatted_chunks, order[k]),
                      total_tokens     |-> acc.total_tokens + ct,
                      chunks_used      |-> acc.chunks_used + 1])

\* context.py 49-96
assemble_context(chs) ==
    LET acc == Accumulate(chs, sorted_chunks(chs), 1,
                   [formatted_chunks |-> << >>, total_tokens |-> 0,
                    chunks_used |-> 0])
    IN  [formatted_context |-> acc.formatted_chunks,
         token_count       |-> acc.total_tokens,
         chunks_used       |-> acc.chunks_used,
         total_chunks      |-> Len(chs)]

InitContext ==
    /\ retrieved \in SeqsUpTo(RetrievedChunk, MaxCtx)
    /\ max_tokens \in 0..MaxTokens
    /\ token_buffer \in 0..MaxBuffer
    /\ include_metadata \in BOOLEAN
    /\ context_data = None
    /\ pcContext = "call"
    \* the other components are idle
    /\ IdleChunker /\ IdleEmbed /\ IdleStore /\ IdleSearch /\ IdleQuery /\ IdleLLM
    /\ IdleSim
    /\ IdleBackfill
    /\ IdleWiring

AssembleContext ==
    /\ pcContext = "call"
    /\ context_data' = assemble_context(retrieved)
    /\ pcContext' = "done"
    /\ UNCHANGED <<retrieved, max_tokens, token_buffer, include_metadata>>
    /\ UNCHANGED exceptContext

NextContext == AssembleContext

(***************************************************************************)
(* Properties of ContextAssembler (SpecContext)                            *)
(***************************************************************************)
RECURSIVE SumCosts(_, _)
SumCosts(chs, idxs) ==
    IF idxs = << >> THEN 0
    ELSE chunk_tokens(chs[Head(idxs)], include_metadata)
            + SumCosts(chs, Tail(idxs))

\* C1 as stated: for every configuration the result has token_count <=
\* max_tokens - token_buffer and chunks_used <= total_chunks.
C1_Original ==
    pcContext = "done" =>
        /\ context_data.token_count <= max_tokens - token_buffer
        /\ context_data.chunks_used <= context_data.total_chunks

\* C1 (amended): for every configuration with token_buffer <= max_tokens the
\* result has token_count <= max_tokens - token_buffer and chunks_used <=
\* total_chunks, total_chunks being the number of input chunks and
\* token_count the sum of the token costs of the accepted chunks.
C1_BudgetRespected ==
    (pcContext = "done" /\ token_buffer <= max_tokens) =>
        /\ context_data.token_count <= max_tokens - token_buffer
        /\ context_data.chunks_used <= context_data.total_chunks
        /\ context_data.total_chunks = Len(retrieved)
        /\ context_data.chunks_used = Len(context_data.formatted_context)
        /\ context_data.token_count
              = SumCosts(retrieved, context_data.formatted_context)

\* a context that took some chunks and stopped at one that did not fit
C1_Witness ==
    /\ pcContext = "done"
    /\ token_buffer <= max_tokens
    /\ context_data.chunks_used >= 1
    /\ context_data.chunks_used < context_data.total_chunks
    /\ context_data.token_count >= 1

\* chunk a comes before chunk b in the stable descending order
Before(chs, a, b) ==
    \/ chs[a].similarity > chs[b].similarity
    \/ chs[a].similarity = chs[b].similarity /\ a < b

\* positions of chs that are not in the sequence idxs
NotIn(chs, idxs) ==
    {p \in 1..Len(chs) : \A n \in 1..Len(idxs) : idxs[n] # p}

\* C26: the accepted chunks are the longest prefix of the input sorted by
\* similarity descending, ties in input order, whose cumulative token cost
\* stays within max_tokens - token_buffer: accumulation stops at the first
\* chunk that does not fit and no later chunk is accepted, even one that
\* would fit; formatted_context lists the accepted chunks in sorted order.
C26_GreedyPrefix ==
    pcContext = "done" =>
        LET fc     == context_data.formatted_context
            rest   == NotIn(retrieved, fc)
            budget == max_tokens - token_buffer
        IN  /\ \A i, j \in 1..Len(fc) :
                  i < j => Before(retrieved, fc[i], fc[j])
            /\ \A i \in 1..Len(fc), p \in rest :
                  Before(retrieved, fc[i], p)
            /\ \A i \in 1..Len(fc) :
                  SumCosts(retrieved, SubSeq(fc, 1, i)) <= budget
            /\ \A p \in rest :
                  (\A r \in rest \ {p} : Before(retrieved, p, r)) =>
                      SumCosts(retrieved, fc)
                        + chunk_tokens(retrieved[p], include_metadata) > budget

\* a chunk was accepted out of input order, the next one did not fit and
\* a chunk after it, which would have fitted, was left out
C26_Witness ==
    /\ pcContext = "done"
    /\ Len(retrieved) >= 3
    /\ context_data.chunks_used >= 1
    /\ context_data.formatted_context[1] # 1
    /\ \E p \in NotIn(retrieved, context_data.formatted_context) :
          SumCosts(retrieved, context_data.formatted_context)
            + chunk_tokens(retrieved[p], include_metadata)
                <= max_tokens - token_buffer


(***************************************************************************)
(* EmbeddingGenerator.generate_embeddings.  The provider answers a request *)
(* of m texts with m embeddings, data[j] belonging to input[j]; which      *)
(* embedding it returns for a text is its own choice.                      *)
(***************************************************************************)
\* most chunks handed to generate_embeddings
MaxEmbChunks == 3
\* largest batch_size enumerated
MaxBatch == 3
\* embeddings are 1..MaxEmb
MaxEmb == 2

EmbInputChunk ==
    [content : {"a", "b"}, index : 0..1, metadata : {"{}"}, token_count : {1}]

RECURSIVE SeqsOfLen(_, _)
SeqsOfLen(S, n) ==
    IF n = 0 THEN {<< >>}
    ELSE {Append(q, x) : q \in SeqsOfLen(S, n - 1), x \in S}

\* a batch that loses its last chunk
BatchDroppingLast(chs, at) == PySlice(chs, at, at + batch_size - 1)

\* embeddings.py 43: batch = chunks[i:i + self.batch_size]
Batch(chs, at) == PySlice(chs, at, at + batch_size)

\* a loop that moves on by one chunk whatever the batch size
NextBatchStartByOne(at) == at + 1

\* embeddings.py 42: range(0, len(chunks), self.batch_size)
NextBatchStart(at) == at + batch_size

\* embeddings.py 52-59: zip(batch, response.data) into result records
ZipRecords(batch, data) ==
    [j \in 1..Min(Len(batch), Len(data)) |->
        [chunk_content |-> batch[j].content,
         chunk_index   |-> batch[j].index,
         metadata      |-> batch[j].metadata,
         token_count   |-> batch[j].token_count,
         embedding     |-> data[j]]]

InitEmbed ==
    /\ embChunks \in SeqsUpTo(EmbInputChunk, MaxEmbChunks)
    /\ batch_size \in 1..MaxBatch
    /\ batch_start = 0
    /\ results = << >>
    /\ providerLog = << >>
    /\ embReturned = None
    /\ pcEmbed = "loop"
    \* the other components are idle
    /\ IdleChunker /\ IdleContext /\ IdleStore /\ IdleSearch /\ IdleQuery /\ IdleLLM
    /\ IdleSim
    /\ IdleBackfill
    /\ IdleWiring

\* embeddings.py 42-59: one batch, the provider call succeeding
EmbedBatchOk ==
    /\ pcEmbed = "loop"
    /\ batch_start < Len(embChunks)
    /\ LET batch == Batch(embChunks, batch_start)
           input == [j \in 1..Len(batch) |-> batch[j].content]
       IN  \E data \in SeqsOfLen(1..MaxEmb, Len(batch)) :
              /\ providerLog' = Append(providerLog,
                                       [input |-> input, ok |-> TRUE,
                                        data |-> data])
              /\ results' = results \o ZipRecords(batch, data)
    /\ batch_start' = NextBatchStart(batch_start)
    /\ UNCHANGED <<embChunks, batch_size, embReturned, pcEmbed>>
    /\ UNCHANGED exceptEmbed

\* the failure caught and the records of the earlier batches returned
ProviderErrorReturningPartial(res) ==
    [pc |-> "returned", returned |-> res]

\* embeddings.py 42-61: no handler in generate_embeddings, the provider's
\* exception leaves the function and nothing is returned
ProviderError(res) ==
    [pc |-> "raised", returned |-> embReturned]

\* embeddings.py 46-49: the provider call raises; nothing catches it
EmbedBatchFail ==
    /\ pcEmbed = "loop"
    /\ batch_start < Len(embChunks)
    /\ LET batch == Batch(embChunks, batch_start)
           input == [j \in 1..Len(batch) |-> batch[j].content]
       IN  providerLog' = Append(providerLog,
                                 [input |-> input, ok |-> FALSE,
                                  data |-> "error"])
    /\ pcEmbed' = ProviderError(results).pc
    /\ embReturned' = ProviderError(results).returned
    /\ UNCHANGED <<embChunks, batch_size, batch_start, results>>
    /\ UNCHANGED exceptEmbed

\* embeddings.py 42, 61: the range is exhausted, results is returned
EmbedReturn ==
    /\ pcEmbed = "loop"
    /\ ~(batch_start < Len(embChunks))
    /\ embReturned' = results
    /\ pcEmbed' = "returned"
    /\ UNCHANGED <<embChunks, batch_size, batch_start, results, providerLog>>
    /\ UNCHANGED exceptEmbed

NextEmbed ==
    \/ EmbedBatchOk
    \/ EmbedBatchFail
    \/ EmbedReturn

(***************************************************************************)
(* Properties of EmbeddingGenerator (SpecEmbed)                            *)
(***************************************************************************)
\* the (text, embedding) pairs of the provider's answers, in request order
RECURSIVE ProviderPairs(_)
ProviderPairs(log) ==
    IF log = << >> THEN << >>
    ELSE LET r == Head(log)
         IN  [j \in 1..Len(r.input) |->
                 [text |-> r.input[j], embedding |-> r.data[j]]]
             \o ProviderPairs(Tail(log))

\* C5: when every provider call succeeds, generate_embeddings returns
\* exactly one record per input chunk, the i-th record carrying the content
\* and index of the i-th chunk and the embedding the provider returned for
\* that chunk's text.
C5_OneToOneOrderPreserving ==
    pcEmbed = "returned" =>
        LET pairs == ProviderPairs(providerLog)
        IN  /\ Len(embReturned) = Len(embChunks)
            /\ Len(pairs) = Len(embChunks)
            /\ \A n \in 1..Len(embChunks) :
                  /\ embReturned[n].chunk_content = embChunks[n].content
                  /\ embReturned[n].chunk_index = embChunks[n].index
                  /\ pairs[n].text = embChunks[n].content
                  /\ embReturned[n].embedding = pairs[n].embedding

\* three chunks embedded in two batches, the provider returning different
\* embeddings within a batch
C5_Witness ==
    /\ pcEmbed = "returned"
    /\ Len(embChunks) = 3
    /\ batch_size = 2
    /\ Len(providerLog) = 2
    /\ embReturned[1].embedding # embReturned[2].embedding
    /\ embChunks[1].content # embChunks[2].content

\* the records generate_embeddings owes for chs when the provider embeds
\* text t as f[t]; the batch size plays no part in it
ExpectedRecords(chs, f) ==
    [n \in 1..Len(chs) |->
        [chunk_content |-> chs[n].content,
         chunk_index   |-> chs[n].index,
         metadata      |-> chs[n].metadata,
         token_count   |-> chs[n].token_count,
         embedding     |-> f[chs[n].content]]]

\* every answer of the provider so far embeds text t as f[t]
ProviderFollows(f) ==
    \A n \in 1..Len(providerLog) :
        providerLog[n].ok =>
            \A j \in 1..Len(providerLog[n].input) :
                providerLog[n].data[j] = f[providerLog[n].input[j]]

\* the texts of all requests so far, in request order
RECURSIVE RequestedTexts(_)
RequestedTexts(log) ==
    IF log = << >> THEN << >>
    ELSE Head(log).input \o RequestedTexts(Tail(log))

\* C27: for n chunks and batch_size b >= 1 a call that returns has issued
\* exactly ceil(n / b) requests, in input order, each with between 1 and b
\* texts; and when the provider's embedding of a text depends on the text
\* alone, the returned records are the ones fixed by the chunks and the
\* provider, the same for every b.
C27_BatchingInvisible ==
    /\ \A n \in 1..Len(providerLog) :
          /\ Len(providerLog[n].input) >= 1
          /\ Len(providerLog[n].input) <= batch_size
    /\ Len(RequestedTexts(providerLog)) <= Len(embChunks)
    /\ \A n \in 1..Len(RequestedTexts(providerLog)) :
          RequestedTexts(providerLog)[n] = embChunks[n].content
    /\ pcEmbed = "returned" =>
          /\ Len(providerLog) = Ceil(Len(embChunks), batch_size)
          /\ \A f \in [{"a", "b"} -> 1..MaxEmb] :
                ProviderFollows(f) =>
                    embReturned = ExpectedRecords(embChunks, f)

\* three chunks in two requests, the first and the last chunk with the same
\* text, embedded alike in different requests
C27_Witness ==
    /\ pcEmbed = "returned"
    /\ Len(embChunks) = 3
    /\ batch_size = 2
    /\ Len(providerLog) = 2
    /\ embChunks[1].content = embChunks[3].content
    /\ embChunks[1].content # embChunks[2].content
    /\ \E f \in [{"a", "b"} -> 1..MaxEmb] : ProviderFollows(f)

\* C18: when the provider call of a batch fails, generate_embeddings fails
\* as a whole: it raises, hands no record to the caller (not even those of
\* batches embedded earlier in the call) and sends no request for a later
\* batch.
C18_AllOrNothing ==
    \A n \in 1..Len(providerLog) :
        ~providerLog[n].ok =>
            /\ pcEmbed = "raised"
            /\ embReturned = None
            /\ n = Len(providerLog)
            /\ batch_start = (n - 1) * batch_size
            /\ Len(results) = batch_start

\* the second batch fails after the first was embedded, a third batch is
\* left
C18_Witness ==
    /\ pcEmbed = "raised"
    /\ Len(providerLog) = 2
    /\ providerLog[1].ok /\ ~providerLog[2].ok
    /\ Len(results) = 1
    /\ Len(embChunks) = 3
    /\ batch_size = 1

(***************************************************************************)
(* RAGStorage.store_chunks.  Every awaited statement of the session is a   *)
(* step of its own and may succeed or raise.  The session is one open      *)
(* transaction: executed inserts are pending until commit makes them       *)
(* visible together or rollback discards them together.                    *)
(***************************************************************************)
\* store_chunks calls explored
MaxCalls == 2
\* most chunks handed to one store_chunks call
MaxStoreChunks == 2

MessageIds == {None, "m1"}
DmMessageIds == {None, "d1"}

\* the frame of a store_chunks call: its arguments (n chunks, message_id,
\* dm_message_id), its locals (k-th chunk of the loop, chunk_id, chunk_ids)
\* and, as history, the chunks whose insert was executed, the chunk at
\* which a statement raised (<< >> if none) and the number of the call
IdleFrame ==
    [pc |-> "idle", n |-> 0, k |-> 0, message_id |-> None,
     dm_message_id |-> None, chunk_id |-> 0, chunk_ids |-> << >>,
     attempted |-> {}, failed_at |-> << >>, no |-> 0]

InitStore ==
    /\ committedChunks = {}
    /\ committedEmbeddings = {}
    /\ pendingChunks = {}
    /\ pendingEmbeddings = {}
    /\ nextId = 1
    /\ callsMade = 0
    /\ call = [c \in {1} |-> IdleFrame]
    \* the other components are idle
    /\ IdleChunker /\ IdleContext /\ IdleEmbed /\ IdleSearch /\ IdleQuery /\ IdleLLM
    /\ IdleSim
    /\ IdleBackfill
    /\ IdleWiring

\* a rollback that leaves the session's pending rows in place
rollbackKeepingRows(pending) == pending

\* storage.py 81: session.rollback() discards the pending rows
rollback(pending) == {}

\* the frame after a failure if the handler went on with the next chunk
AfterFailureContinuing(f) ==
    IF f.k + 1 < f.n
    THEN [f EXCEPT !.pc = "insert_chunk", !.k = f.k + 1]
    ELSE [f EXCEPT !.pc = "returned"]

\* storage.py 82: raise e ends the call
AfterFailure(f) == [f EXCEPT !.pc = "raised"]

\* storage.py 19-37: a call starts; an empty list returns at once
StoreChunksCall(c) ==
    /\ call[c].pc \in {"idle", "returned", "raised"}
    /\ callsMade < MaxCalls
    /\ \E n \in 0..MaxStoreChunks, m \in MessageIds, d \in DmMessageIds :
          call' = [call EXCEPT ![c] =
                      [IdleFrame EXCEPT
                          !.pc = IF n = 0 THEN "returned" ELSE "insert_chunk",
                          !.n = n, !.message_id = m, !.dm_message_id = d,
                          !.no = callsMade + 1]]
    /\ callsMade' = callsMade + 1
    /\ UNCHANGED <<committedChunks, committedEmbeddings, pendingChunks,
                   pendingEmbeddings, nextId>>
    /\ UNCHANGED exceptStore

\* storage.py 40-58: INSERT INTO message_chunks ... RETURNING id succeeds
InsertChunkOk(c) ==
    /\ call[c].pc = "insert_chunk"
    /\ pendingChunks' = pendingChunks \cup
          {[id |-> nextId, message_id |-> call[c].message_id,
            dm_message_id |-> call[c].dm_message_id,
            chunk_index |-> call[c].k, call |-> call[c].no]}
    /\ nextId' = nextId + 1
    /\ call' = [call EXCEPT ![c].pc = "insert_embedding",
                            ![c].chunk_id = nextId,
                            ![c].chunk_ids = Append(@, nextId),
                            ![c].attempted = @ \cup {call[c].k}]
    /\ UNCHANGED <<committedChunks, committedEmbeddings, pendingEmbeddings,
                   callsMade>>
    /\ UNCHANGED exceptStore

\* storage.py 47, 80: the chunk insert raises
InsertChunkFail(c) ==
    /\ call[c].pc = "insert_chunk"
    /\ call' = [call EXCEPT ![c].pc = "rollback",
                            ![c].attempted = @ \cup {call[c].k},
                            ![c].failed_at = <<call[c].k>>]
    /\ UNCHANGED <<committedChunks, committedEmbeddings, pendingChunks,
                   pendingEmbeddings, nextId, callsMade>>
    /\ UNCHANGED exceptStore

\* storage.py 60-76: INSERT INTO message_embeddings succeeds
InsertEmbeddingOk(c) ==
    /\ call[c].pc = "insert_embedding"
    /\ pendingEmbeddings' = pendingEmbeddings \cup
          {[id |-> nextId, chunk_id |-> call[c].chunk_id]}
    /\ nextId' = nextId + 1
    /\ call' = [call EXCEPT ![c].pc = "commit"]
    /\ UNCHANGED <<committedChunks, committedEmbeddings, pendingChunks,
                   callsMade>>
    /\ UNCHANGED exceptStore

\* storage.py 70, 80: the embedding insert raises
InsertEmbeddingFail(c) ==
    /\ call[c].pc = "insert_embedding"
    /\ call' = [call EXCEPT ![c].pc = "rollback", ![c].failed_at = <<call[c].k>>]
    /\ UNCHANGED <<committedChunks, committedEmbeddings, pendingChunks,
                   pendingEmbeddings, nextId, callsMade>>
    /\ UNCHANGED exceptStore

\* storage.py 78, 37, 84: session.commit() succeeds; next chunk or return
CommitOk(c) ==
    /\ call[c].pc = "commit"
    /\ committedChunks' = committedChunks \cup pendingChunks
    /\ committedEmbeddings' = committedEmbeddings \cup pendingEmbeddings
    /\ pendingChunks' = {}
    /\ pendingEmbeddings' = {}
    /\ call' = [call EXCEPT
                  ![c].k = @ + 1,
                  ![c].pc = IF call[c].k + 1 < call[c].n
                            THEN "insert_chunk" ELSE "returned"]
    /\ UNCHANGED <<nextId, callsMade>>
    /\ UNCHANGED exceptStore

\* storage.py 78, 80: session.commit() raises
CommitFail(c) ==
    /\ call[c].pc = "commit"
    /\ call' = [call EXCEPT ![c].pc = "rollback", ![c].failed_at = <<call[c].k>>]
    /\ UNCHANGED <<committedChunks, committedEmbeddings, pendingChunks,
                   pendingEmbeddings, nextId, callsMade>>
    /\ UNCHANGED exceptStore

\* storage.py 80-82: the handler rolls back and re-raises
Rollback(c) ==
    /\ call[c].pc = "rollback"
    /\ pendingChunks' = rollback(pendingChunks)
    /\ pendingEmbeddings' = rollback(pendingEmbeddings)
    /\ call' = [call EXCEPT ![c] = AfterFailure(call[c])]
    /\ UNCHANGED <<committedChunks, committedEmbeddings, nextId, callsMade>>
    /\ UNCHANGED exceptStore

NextStore ==
    \/ StoreChunksCall(1)
    \/ InsertChunkOk(1)
    \/ InsertChunkFail(1)
    \/ InsertEmbeddingOk(1)
    \/ InsertEmbeddingFail(1)
    \/ CommitOk(1)
    \/ CommitFail(1)
    \/ Rollback(1)

(***************************************************************************)
(* Two callers on one RAGStorage (SpecStore2).  Both calls use the same    *)
(* session (storage.py 16-17: self.session), hence the same open           *)
(* transaction; a call is suspended at each awaited statement and the      *)
(* other call may run its next statement in between.                       *)
(***************************************************************************)
InitStore2 ==
    /\ committedChunks = {}
    /\ committedEmbeddings = {}
    /\ pendingChunks = {}
    /\ pendingEmbeddings = {}
    /\ nextId = 1
    /\ callsMade = 0
    /\ call = [c \in {1, 2} |-> IdleFrame]
    \* the other components are idle
    /\ IdleChunker /\ IdleContext /\ IdleEmbed /\ IdleSearch /\ IdleQuery /\ IdleLLM
    /\ IdleSim
    /\ IdleBackfill
    /\ IdleWiring

NextStore2 ==
    \/ StoreChunksCall(1)
    \/ InsertChunkOk(1)
    \/ InsertChunkFail(1)
    \/ InsertEmbeddingOk(1)
    \/ InsertEmbeddingFail(1)
    \/ CommitOk(1)
    \/ CommitFail(1)
    \/ Rollback(1)
    \/ StoreChunksCall(2)
    \/ InsertChunkOk(2)
    \/ InsertChunkFail(2)
    \/ InsertEmbeddingOk(2)
    \/ InsertEmbeddingFail(2)
    \/ CommitOk(2)
    \/ CommitFail(2)
    \/ Rollback(2)

(***************************************************************************)
(* Properties of RAGStorage.store_chunks (SpecStore)                       *)
(***************************************************************************)
EmbeddingsOf(ch) == {e \in committedEmbeddings : e.chunk_id = ch.id}

\* C7: for a single caller, whatever fails in whatever call, every
\* committed StoredChunk row has exactly one committed StoredEmbedding row
\* referencing it and every committed StoredEmbedding row references a
\* committed StoredChunk.
C7_OneToOne ==
    /\ \A ch \in committedChunks : Cardinality(EmbeddingsOf(ch)) = 1
    /\ \A e \in committedEmbeddings :
          \E ch \in committedChunks : ch.id = e.chunk_id

\* a second call commits a pair after the first call committed one pair and
\* then failed between its chunk insert and its commit
C7_Witness ==
    /\ callsMade = 2
    /\ call[1].pc = "returned"
    /\ \E a \in committedChunks, b \in committedChunks :
          /\ a.call = 1 /\ b.call = 2
          /\ b.id > a.id + 3

\* the committed chunk rows written by the caller's current call
RowsOfCall(c) == {ch \in committedChunks : ch.call = call[c].no}

\* C8: when persisting chunk k of a call fails, the pairs of chunks 0..k-1
\* stay committed, nothing of chunk k or of a later chunk is committed, no
\* later chunk is attempted, and the call ends by raising, never by
\* returning identifiers.
C8_FailureStopsBatch ==
    \A c \in DOMAIN call :
        call[c].failed_at # << >> =>
            LET k == call[c].failed_at[1]
            IN  /\ call[c].pc \in {"rollback", "raised"}
                /\ {ch.chunk_index : ch \in RowsOfCall(c)} = 0..(k - 1)
                /\ Cardinality(RowsOfCall(c)) = k
                /\ \A ch \in RowsOfCall(c) : Cardinality(EmbeddingsOf(ch)) = 1
                /\ call[c].attempted \subseteq 0..k
                /\ call[c].pc = "raised" =>
                      /\ pendingChunks = {}
                      /\ pendingEmbeddings = {}

\* a call of two chunks raised at its second chunk, whose chunk row had
\* been inserted
C8_Witness ==
    /\ call[1].pc = "raised"
    /\ call[1].n = 2
    /\ call[1].failed_at = <<1>>
    /\ Len(call[1].chunk_ids) = 2
    /\ Cardinality(RowsOfCall(1)) = 1

\* C29: with two store_chunks calls interleaved on one session, every
\* committed chunk row still has exactly one committed embedding row (no
\* commit of one call commits the other call's chunk row without its
\* embedding row), and every chunk a call reports as stored by returning its
\* id is committed (no rollback of one call discards it).
C29_InterleavedOneToOne ==
    /\ \A ch \in committedChunks : Cardinality(EmbeddingsOf(ch)) = 1
    /\ \A c \in DOMAIN call :
          call[c].pc = "returned" =>
              \A n \in 1..Len(call[c].chunk_ids) :
                  \E ch \in committedChunks : ch.id = call[c].chunk_ids[n]

\* C9: a call with both or neither of message_id / dm_message_id inserts
\* nothing, and no committed StoredChunk has both or neither owner.
C9_ExactlyOneOwner ==
    /\ \A c \in DOMAIN call :
          ((call[c].message_id = None) = (call[c].dm_message_id = None))
             => call[c].attempted = {}
    /\ \A ch \in committedChunks :
          (ch.message_id = None) # (ch.dm_message_id = None)


(***************************************************************************)
(* RAGStorage.search_similar.  Similarities are in tenths.  The database   *)
(* function search_similar_messages is not part of the Python sources; it  *)
(* is modelled from the read contract: rows at or above the threshold,     *)
(* by similarity descending, at most `limit` of them.                      *)
(***************************************************************************)
\* most rows in the corpus
MaxCorpus == 3
\* embeddings of the search model are 0..MaxVec
MaxVec == 2
\* largest threshold enumerated (tenths)
MaxThreshold == 11
\* largest limit enumerated
MaxLimit == 3

CorpusRow == [embedding : 0..MaxVec, content_tokens : {1}, meta_tokens : {1}]

\* similarity of a stored embedding to the query embedding, in tenths
Similarity(e, q) == 10 - 3 * (IF e > q THEN e - q ELSE q - e)

RECURSIVE FilterSeq(_, _)
FilterSeq(rows, th) ==
    IF rows = << >> THEN << >>
    ELSE IF Head(rows).similarity >= th
         THEN <<Head(rows)>> \o FilterSeq(Tail(rows), th)
         ELSE FilterSeq(Tail(rows), th)

\* the database function: WHERE similarity >= threshold ORDER BY similarity
\* DESC LIMIT limit
search_similar_messages(rows, q, th, lim) ==
    LET scored == [n \in 1..Len(rows) |->
                      [chunk_id       |-> n,
                       similarity     |-> Similarity(rows[n].embedding, q),
                       content_tokens |-> rows[n].content_tokens,
                       meta_tokens    |-> rows[n].meta_tokens]]
        kept   == FilterSeq(scored, th)
        order  == sorted_chunks(kept)
        ranked == [n \in 1..Len(order) |-> kept[order[n]]]
    IN  SubSeq(ranked, 1, Min(Len(ranked), Max(lim, 0)))

\* the call with threshold and limit interchanged
search_similar_swapped(rows, q, th, lim) ==
    search_similar_messages(rows, q, lim, th)

\* storage.py 102-122: the arguments are bound to the query and the rows
\* are returned in the order the database yields them
search_similar(rows, q, th, lim) == search_similar_messages(rows, q, th, lim)

InitSearch ==
    /\ corpus \in SeqsUpTo(CorpusRow, MaxCorpus)
    /\ query_embedding \in 0..MaxVec
    /\ threshold \in 0..MaxThreshold
    /\ limit \in 0..MaxLimit
    /\ similar_chunks = << >>
    /\ pcSearch = "call"
    \* the other components are idle
    /\ IdleChunker /\ IdleContext /\ IdleEmbed /\ IdleStore /\ IdleQuery /\ IdleLLM
    /\ IdleSim
    /\ IdleBackfill
    /\ IdleWiring

\* storage.py 86-122: the query succeeds
SearchSimilarOk ==
    /\ pcSearch = "call"
    /\ similar_chunks' = search_similar(corpus, query_embedding, threshold, limit)
    /\ pcSearch' = "done"
    /\ UNCHANGED <<corpus, query_embedding, threshold, limit>>
    /\ UNCHANGED exceptSearch

\* storage.py 115: session.execute raises; nothing catches it
SearchSimilarFail ==
    /\ pcSearch = "call"
    /\ pcSearch' = "raised"
    /\ UNCHANGED <<corpus, query_embedding, threshold, limit, similar_chunks>>
    /\ UNCHANGED exceptSearch

NextSearch ==
    \/ SearchSimilarOk
    \/ SearchSimilarFail

(***************************************************************************)
(* Properties of RAGStorage.search_similar (SpecSearch)                    *)
(***************************************************************************)
\* C6: search_similar returns only results with similarity >= threshold, at
\* most limit of them, ordered by similarity descending; every result is a
\* row of the corpus with its similarity to the query.
C6_ThresholdLimitOrder ==
    pcSearch = "done" =>
        /\ Len(similar_chunks) <= limit
        /\ \A n \in 1..Len(similar_chunks) :
              /\ similar_chunks[n].similarity >= threshold
              /\ similar_chunks[n].chunk_id \in 1..Len(corpus)
              /\ similar_chunks[n].similarity
                    = Similarity(corpus[similar_chunks[n].chunk_id].embedding,
                                 query_embedding)
        /\ \A n \in 1..(Len(similar_chunks) - 1) :
              similar_chunks[n].similarity >= similar_chunks[n + 1].similarity

\* a search that dropped a row below the threshold and cut the rest to the
\* limit, returning rows of different similarity
C6_Witness ==
    /\ pcSearch = "done"
    /\ Len(corpus) = 3
    /\ Len(similar_chunks) = 2
    /\ limit = 2
    /\ similar_chunks[1].similarity > similar_chunks[2].similarity
    /\ similar_chunks[2].similarity >= threshold
    /\ threshold > 0
    /\ \E n \in 1..3 : Similarity(corpus[n].embedding, query_embedding) < threshold

(***************************************************************************)
(* RAGQueryProcessor.process_query.  The collaborators are the injected    *)
(* objects; each awaited call may return or raise.                         *)
(***************************************************************************)
\* largest top_k enumerated
MaxTopK == 2
\* largest measured latency in milliseconds
MaxLatency == 1

\* query.py 19
default_top_k == 5
\* query.py 20 (0.7, in tenths)
default_similarity_threshold == 7

TopKArgs == {<< >>} \cup {<<v>> : v \in 0..MaxTopK}
ThresholdArgs == {<< >>} \cup {<<v>> : v \in {0, 4, 9}}

\* Python's `x or default` on an optional number
PyOr(opt, default) ==
    IF opt = << >> THEN default
    ELSE IF opt[1] = 0 THEN default ELSE opt[1]

InitQuery ==
    /\ query_text \in {"q1", "q2"}
    /\ user_id \in {"u1", "u2"}
    /\ top_k \in TopKArgs
    /\ similarity_threshold \in ThresholdArgs
    /\ stream_response \in BOOLEAN
    /\ stages = << >>
    /\ response_data = None
    /\ store_query_args = None
    /\ queryResult = None
    /\ queryError = None
    /\ pcQuery = "embed"
    \* the store behind self.storage
    /\ corpus \in SeqsUpTo(CorpusRow, 2)
    /\ query_embedding = 0
    /\ threshold = 0
    /\ limit = 0
    /\ similar_chunks = << >>
    /\ pcSearch = "idle"
    \* the configuration of self.context_assembler
    /\ retrieved = << >>
    /\ max_tokens = MaxTokens
    /\ token_buffer \in 0..MaxBuffer
    /\ include_metadata \in BOOLEAN
    /\ context_data = None
    /\ pcContext = "idle"
    \* the other components are idle
    /\ IdleChunker /\ IdleEmbed /\ IdleStore /\ IdleLLM
    /\ IdleSim
    /\ IdleBackfill
    /\ IdleWiring

\* the exception replaced by one of the orchestrator's own
RaiseWrapped(stage, error) ==
    /\ stages' = Append(stages, stage)
    /\ queryError' = "Error processing query"
    /\ pcQuery' = "raised"

\* the exception of a failed stage reaches the caller (no handler in
\* process_query)
Raise(stage, error) ==
    /\ stages' = Append(stages, stage)
    /\ queryError' = error
    /\ pcQuery' = "raised"

\* query.py 70-73: the query embedding is generated
EmbedQueryOk ==
    /\ pcQuery = "embed"
    /\ "embedding_generator" \notin repository
    /\ query_embedding' \in 0..MaxVec
    /\ stages' = Append(stages, "generate_embeddings")
    /\ pcQuery' = "search"
    /\ UNCHANGED <<query_text, user_id, top_k, similarity_threshold, stream_response, response_data,
                   store_query_args, queryResult, queryError>>
    /\ UNCHANGED <<corpus, threshold, limit, similar_chunks, pcSearch>>
    /\ UNCHANGED <<contextVars, exceptQuery>>

\* query.py 72: generate_embeddings raises
EmbedQueryFail ==
    /\ pcQuery = "embed"
    /\ "embedding_generator" \notin repository
    /\ Raise("generate_embeddings", "embedding error")
    /\ UNCHANGED <<query_text, user_id, top_k, similarity_threshold, stream_response, response_data,
                   store_query_args, queryResult>>
    /\ UNCHANGED <<searchVars, contextVars, exceptQuery>>

\* query.py 75-80: search_similar with the caller's values or the defaults
SearchOk ==
    /\ pcQuery = "search"
    /\ threshold' = PyOr(similarity_threshold, default_similarity_threshold)
    /\ limit' = PyOr(top_k, default_top_k)
    /\ similar_chunks' = search_similar(corpus, query_embedding, threshold', limit')
    /\ stages' = Append(stages, "search_similar")
    /\ pcQuery' = "assemble"
    /\ UNCHANGED <<query_text, user_id, top_k, similarity_threshold, stream_response, response_data,
                   store_query_args, queryResult, queryError>>
    /\ UNCHANGED <<corpus, query_embedding, pcSearch>>
    /\ UNCHANGED <<contextVars, exceptQuery>>

\* query.py 76: search_similar raises
SearchFail ==
    /\ pcQuery = "search"
    /\ threshold' = PyOr(similarity_threshold, default_similarity_threshold)
    /\ limit' = PyOr(top_k, default_top_k)
    /\ Raise("search_similar", "Database error")
    /\ UNCHANGED <<query_text, user_id, top_k, similarity_threshold, stream_response, response_data,
                   store_query_args, queryResult>>
    /\ UNCHANGED <<corpus, query_embedding, similar_chunks, pcSearch>>
    /\ UNCHANGED <<contextVars, exceptQuery>>

\* query.py 82-87: the context is assembled from the retrieved chunks
AssembleStage ==
    /\ pcQuery = "assemble"
    /\ retrieved' = similar_chunks
    /\ context_data' = assemble_context(similar_chunks)
    /\ stages' = Append(stages, "assemble_context")
    /\ pcQuery' = "generate"
    /\ UNCHANGED <<query_text, user_id, top_k, similarity_threshold, stream_response, response_data,
                   store_query_args, queryResult, queryError>>
    /\ UNCHANGED <<max_tokens, token_buffer, include_metadata, pcContext>>
    /\ UNCHANGED <<searchVars, exceptQuery>>

\* query.py 90-99: the stream is created, not consumed
GenerateStream ==
    /\ pcQuery = "generate"
    /\ "llm_processor" \notin repository
    /\ stream_response
    /\ response_data' = [type |-> "stream"]
    /\ stages' = Append(stages, "generate_stream_response")
    /\ pcQuery' = "store_query"
    /\ UNCHANGED <<query_text, user_id, top_k, similarity_threshold, stream_response,
                   store_query_args, queryResult, queryError>>
    /\ UNCHANGED <<searchVars, contextVars, exceptQuery>>

\* query.py 100-106: the complete response is generated
GenerateOk ==
    /\ pcQuery = "generate"
    /\ "llm_processor" \notin repository
    /\ ~stream_response
    /\ response_data' = [type |-> "complete"]
    /\ stages' = Append(stages, "generate_rag_response")
    /\ pcQuery' = "store_query"
    /\ UNCHANGED <<query_text, user_id, top_k, similarity_threshold, stream_response,
                   store_query_args, queryResult, queryError>>
    /\ UNCHANGED <<searchVars, contextVars, exceptQuery>>

\* query.py 101: generate_rag_response raises
GenerateFail ==
    /\ pcQuery = "generate"
    /\ "llm_processor" \notin repository
    /\ ~stream_response
    /\ Raise("generate_rag_response", "Error generating response")
    /\ UNCHANGED <<query_text, user_id, top_k, similarity_threshold, stream_response, response_data,
                   store_query_args, queryResult>>
    /\ UNCHANGED <<searchVars, contextVars, exceptQuery>>

\* the analytics call logging only the chunks that went into the context
store_query_call_used_chunks(latency) ==
    [user_id          |-> user_id,
     query_text       |-> query_text,
     retrieved_chunks |-> SubSeq(similar_chunks, 1, context_data.chunks_used),
     latency_ms       |-> latency]

\* query.py 113-118: the keyword arguments of self.storage.store_query
store_query_call(latency) ==
    [user_id          |-> user_id,
     query_text       |-> query_text,
     retrieved_chunks |-> similar_chunks,
     latency_ms       |-> latency]

\* query.py 108-129: latency is taken, the query is logged, the result
\* returned
StoreQueryOk ==
    /\ pcQuery = "store_query"
    /\ "storage" \notin repository
    /\ \E latency \in 0..MaxLatency :
          /\ store_query_args' = store_query_call(latency)
          /\ queryResult' =
                [query_text         |-> query_text,
                 retrieved_chunks   |-> similar_chunks,
                 formatted_context  |-> context_data.formatted_context,
                 context_token_count |-> context_data.token_count,
                 chunks_used        |-> context_data.chunks_used,
                 total_chunks       |-> context_data.total_chunks,
                 response           |-> response_data,
                 processing_time_ms |-> latency]
    /\ stages' = Append(stages, "store_query")
    /\ pcQuery' = "returned"
    /\ UNCHANGED <<query_text, user_id, top_k, similarity_threshold, stream_response, response_data,
                   queryError>>
    /\ UNCHANGED <<searchVars, contextVars, exceptQuery>>

\* query.py 113: store_query raises
StoreQueryFail ==
    /\ pcQuery = "store_query"
    /\ "storage" \notin repository
    /\ \E latency \in 0..MaxLatency :
          store_query_args' = store_query_call(latency)
    /\ Raise("store_query failed", "store_query error")
    /\ UNCHANGED <<query_text, user_id, top_k, similarity_threshold, stream_response, response_data,
                   queryResult>>
    /\ UNCHANGED <<searchVars, contextVars, exceptQuery>>

NextQuery ==
    \/ EmbedQueryOk
    \/ EmbedQueryFail
    \/ SearchOk
    \/ SearchFail
    \/ AssembleStage
    \/ GenerateStream
    \/ GenerateOk
    \/ GenerateFail
    \/ StoreQueryOk
    \/ StoreQueryFail

(***************************************************************************)
(* Properties of RAGQueryProcessor.process_query (SpecQuery)               *)
(***************************************************************************)
\* C10: when store_query fails after embedding, search, assembly and
\* generation succeeded, process_query still returns the normal result; the
\* analytics failure never reaches the caller.
C10_AnalyticsFailureSwallowed ==
    (Len(stages) = 5 /\ stages[5] = "store_query failed") =>
        /\ pcQuery = "returned"
        /\ queryError = None
        /\ queryResult.processing_time_ms = store_query_args.latency_ms

\* the collaborator calls of a run in which nothing fails
StageOrder ==
    <<"generate_embeddings", "search_similar", "assemble_context",
      IF stream_response THEN "generate_stream_response"
      ELSE "generate_rag_response">>

\* the exception each collaborator raises when it fails
StageError(stage) ==
    CASE stage = "generate_embeddings" -> "embedding error"
      [] stage = "search_similar" -> "Database error"
      [] stage = "generate_rag_response" -> "Error generating response"
      [] OTHER -> "store_query error"

\* C11: the stages are invoked strictly in the order embed, search,
\* assemble, generate, each at most once; when a stage fails no later stage
\* and no analytics write is invoked, the run ends there, and the error of
\* that stage reaches the caller unchanged.
C11_StrictOrderNoRetry ==
    /\ \A n \in 1..Min(Len(stages), 4) : stages[n] = StageOrder[n]
    /\ Len(stages) <= 5
    /\ queryError # None => pcQuery = "raised"
    /\ (pcQuery = "raised" /\ Len(stages) <= 4) =>
          /\ store_query_args = None
          /\ queryResult = None
          /\ queryError = StageError(stages[Len(stages)])

\* the search failed with "Database error" and the caller got exactly that
C11_Witness ==
    /\ pcQuery = "raised"
    /\ stages = <<"generate_embeddings", "search_similar">>
    /\ queryError = "Database error"
    /\ context_data = None

\* C12: search_similar receives exactly the caller's top_k as limit and
\* similarity_threshold as threshold for every specified value, 0 included,
\* and the configured defaults exactly when the argument is unspecified.
C12_ArgumentsPassedExactly ==
    (Len(stages) >= 2) =>
        /\ limit = IF top_k = << >> THEN default_top_k ELSE top_k[1]
        /\ threshold = IF similarity_threshold = << >>
                       THEN default_similarity_threshold
                       ELSE similarity_threshold[1]

\* C13: a call that returns has called store_query exactly once, after the
\* generation stage, with the caller's user_id and query_text, the exact
\* sequence search_similar returned and the latency_ms that the result
\* carries as processing_time_ms.
C13_AnalyticsLoggedOnce ==
    pcQuery = "returned" =>
        /\ Len(stages) = 5
        /\ stages[5] = "store_query"
        /\ stages[4] = StageOrder[4]
        /\ \A n \in 1..4 : stages[n] # "store_query"
        /\ store_query_args.user_id = user_id
        /\ store_query_args.query_text = query_text
        /\ store_query_args.retrieved_chunks = similar_chunks
        /\ store_query_args.retrieved_chunks = queryResult.retrieved_chunks
        /\ store_query_args.latency_ms = queryResult.processing_time_ms
        /\ store_query_args.latency_ms \in Nat

\* a returned call whose context left out a retrieved chunk and whose
\* latency was not zero
C13_Witness ==
    /\ pcQuery = "returned"
    /\ Len(similar_chunks) = 2
    /\ context_data.chunks_used < 2
    /\ queryResult.processing_time_ms = 1
    /\ stages[5] = "store_query"


\* C20: when search_similar returns an empty sequence, process_query goes on
\* to assembly and generation and returns a result with chunks_used = 0 and
\* total_chunks = 0; it ends with an error only when one of the four stages
\* failed.
C20_EmptyRetrievalNotAnError ==
    (Len(stages) >= 3 /\ similar_chunks = << >>) =>
        /\ pcQuery = "returned" =>
              /\ queryResult.chunks_used = 0
              /\ queryResult.total_chunks = 0
              /\ queryResult.retrieved_chunks = << >>
        /\ pcQuery = "raised" => Len(stages) <= 4

(***************************************************************************)
(* process_query with the collaborators of the repository.  The            *)
(* constructor takes any four objects; each of embedding_generator,        *)
(* storage and llm_processor is either the repository's class or an object *)
(* that accepts the calls process_query makes (as the mocks of             *)
(* tests/test_query.py do).  The repository's ContextAssembler and         *)
(* search_similar accept the calls as they are made.                       *)
(***************************************************************************)
Collaborators == {"embedding_generator", "storage", "llm_processor"}

AttributeErrorContent == "'dict' object has no attribute 'content'"
TypeErrorSystemPrompt ==
    "got an unexpected keyword argument 'custom_system_prompt'"
AttributeErrorStoreQuery == "'RAGStorage' object has no attribute 'store_query'"

InitQueryRepo ==
    /\ repository \in SUBSET Collaborators
    /\ query_text \in {"q1", "q2"}
    /\ user_id = "u1"
    /\ top_k \in TopKArgs
    /\ similarity_threshold \in {<< >>, <<4>>}
    /\ stream_response \in BOOLEAN
    /\ stages = << >>
    /\ response_data = None
    /\ store_query_args = None
    /\ queryResult = None
    /\ queryError = None
    /\ pcQuery = "embed"
    \* the store behind self.storage
    /\ corpus \in SeqsUpTo(CorpusRow, 1)
    /\ query_embedding = 0
    /\ threshold = 0
    /\ limit = 0
    /\ similar_chunks = << >>
    /\ pcSearch = "idle"
    \* the configuration of self.context_assembler
    /\ retrieved = << >>
    /\ max_tokens = MaxTokens
    /\ token_buffer \in 0..MaxBuffer
    /\ include_metadata \in BOOLEAN
    /\ context_data = None
    /\ pcContext = "idle"
    \* the components not called are idle
    /\ IdleChunker /\ IdleEmbed /\ IdleStore /\ IdleLLM
    /\ IdleSim
    /\ IdleBackfill

\* query.py 71-72 into embeddings.py 45-48: the query is handed over as a
\* dictionary, EmbeddingGenerator reads chunk.content of it
EmbedQueryAttributeError ==
    /\ pcQuery = "embed"
    /\ "embedding_generator" \in repository
    /\ Raise("generate_embeddings", AttributeErrorContent)
    /\ UNCHANGED <<query_text, user_id, top_k, similarity_threshold,
                   stream_response, response_data, store_query_args,
                   queryResult>>
    /\ UNCHANGED <<searchVars, contextVars, exceptQuery>>

\* query.py 90-105 into llm.py 47-52, 103-108: custom_system_prompt is no
\* parameter of LLMProcessor's methods; the call itself raises, for the
\* generator function as well
GenerateTypeError ==
    /\ pcQuery = "generate"
    /\ "llm_processor" \in repository
    /\ Raise(StageOrder[4], TypeErrorSystemPrompt)
    /\ UNCHANGED <<query_text, user_id, top_k, similarity_threshold,
                   stream_response, response_data, store_query_args,
                   queryResult>>
    /\ UNCHANGED <<searchVars, contextVars, exceptQuery>>

\* query.py 113 into storage.py 8-163: RAGStorage has no store_query; the
\* attribute lookup raises before any argument is built
StoreQueryAttributeError ==
    /\ pcQuery = "store_query"
    /\ "storage" \in repository
    /\ Raise("store_query failed", AttributeErrorStoreQuery)
    /\ UNCHANGED <<query_text, user_id, top_k, similarity_threshold,
                   stream_response, response_data, store_query_args,
                   queryResult>>
    /\ UNCHANGED <<searchVars, contextVars, exceptQuery>>

NextQueryRepo ==
    \/ EmbedQueryOk
    \/ EmbedQueryFail
    \/ EmbedQueryAttributeError
    \/ SearchOk
    \/ SearchFail
    \/ AssembleStage
    \/ GenerateStream
    \/ GenerateOk
    \/ GenerateFail
    \/ GenerateTypeError
    \/ StoreQueryOk
    \/ StoreQueryFail
    \/ StoreQueryAttributeError

\* the errors with which a collaborator fails: its provider or its database
\* failed
CollaboratorErrors ==
    {StageError(stage) :
        stage \in {"generate_embeddings", "search_similar",
                   "generate_rag_response", "store_query"}}

\* C21: with the repository's EmbeddingGenerator, RAGStorage,
\* ContextAssembler and LLMProcessor, a process_query request ends with an
\* error only when a collaborator failed; otherwise it passes the four
\* stages and returns a response of type 'complete' (stream_response false)
\* or 'stream' (stream_response true).
C21_RepositoryHappyPath ==
    repository = Collaborators =>
        /\ pcQuery = "raised" => queryError \in CollaboratorErrors
        /\ pcQuery = "returned" =>
              /\ SubSeq(stages, 1, 4) = StageOrder
              /\ queryResult.response.type =
                    IF stream_response THEN "stream" ELSE "complete"

(***************************************************************************)
(* LLMProcessor.  The provider is the OpenAI client: a non-streaming call  *)
(* answers with one text or raises; a streaming call answers with a        *)
(* stream of chunks, each carrying a (possibly empty) piece of that text,  *)
(* and may raise when the call is made or while the stream is read.  The   *)
(* same provider output for both calls means that the non-streaming text   *)
(* is the concatenation of the pieces.  A text is a sequence of            *)
(* characters.                                                             *)
(***************************************************************************)
\* most chunks in the provider's stream
MaxDeltas == 3
\* the texts a chunk of the provider's stream may carry: none, a blank, a
\* letter, a character JSON escapes, a blank followed by a letter
DeltaTexts == {<< >>, <<" ">>, <<"a">>, <<"\"">>, <<" ", "a">>}

ModelNames ==
    {<<"gpt-3.5-turbo", "instruct">>, <<"gpt-4-turbo", "preview">>,
     <<"my", "instruct", "v2">>}

\* llm.py 10-18
DEFAULT_SYSTEM_PROMPT == "You are an AI avatar that imitates a specific user"

RECURSIVE Concat(_)
Concat(texts) ==
    IF texts = << >> THEN << >> ELSE Head(texts) \o Concat(Tail(texts))

\* json.dumps of a string: quotes and backslashes are escaped
RECURSIVE JsonEscape(_)
JsonEscape(t) ==
    IF t = << >> THEN << >>
    ELSE (IF Head(t) \in {"\"", "\\"} THEN <<"\\", Head(t)>> ELSE <<Head(t)>>)
         \o JsonEscape(Tail(t))

\* the string a JSON parser reads from an escaped one
RECURSIVE JsonUnescape(_)
JsonUnescape(t) ==
    IF t = << >> THEN << >>
    ELSE IF Head(t) = "\\" /\ Len(t) >= 2
         THEN <<t[2]>> \o JsonUnescape(Tail(Tail(t)))
         ELSE <<Head(t)>> \o JsonUnescape(Tail(t))

\* json.dumps({key: value})
json_dumps(key, value) ==
    <<"{\"", key, "\": \"">> \o JsonEscape(value) \o <<"\"}">>

\* the object a consumer parses from the body of an event
json_loads(body) ==
    [key   |-> body[2],
     value |-> JsonUnescape(SubSeq(body, 4, Len(body) - 1))]

\* llm.py 127, 144, 149: f"data: {json.dumps(...)}\n\n"
sse(body) == <<"data: ">> \o body \o <<"\n\n">>

\* the payload a consumer reads from one event
EventPayload(event) == json_loads(SubSeq(event, 2, Len(event) - 1))

\* a content event that carries the stripped text of the chunk
ContentEventStripped(t) == sse(json_dumps("content", Strip(t)))

\* llm.py 127, 144: the event that carries the text of one chunk
ContentEvent(t) == sse(json_dumps("content", t))

\* llm.py 149: the event that carries str(e)
ErrorEvent(e) == sse(json_dumps("error", <<e>>))

\* llm.py 35-45: the f-string, as its literal and interpolated parts
_create_prompt(q, context, name) ==
    <<"Here are some example messages from ", name,
      " that show their writing style and personality:\n\n", context,
      "\n\nBased on these examples, respond to the following message exactly as ",
      name, " would:\nMessage: ", q, "\n\n", name, "'s response:">>

\* llm.py 57, 113: "instruct" in self.model_name
IsInstruct(name) == \E n \in 1..Len(name) : name[n] = "instruct"

\* llm.py 59-67 and 76-85: the keyword arguments of the provider call of
\* generate_rag_response
RagRequest ==
    LET prompt == _create_prompt(llm_query, llm_context, username)
    IN  IF IsInstruct(model_name)
        THEN [endpoint |-> "completions", model |-> model_name,
              prompt |-> prompt, messages |-> << >>,
              temperature |-> "self.temperature", max_tokens |-> "1000",
              top_p |-> "1", frequency_penalty |-> "0.3",
              presence_penalty |-> "0.3", stream |-> FALSE]
        ELSE [endpoint |-> "chat.completions", model |-> model_name,
              prompt |-> << >>,
              messages |-> <<[role |-> "system",
                              content |-> DEFAULT_SYSTEM_PROMPT],
                             [role |-> "user", content |-> prompt]>>,
              temperature |-> "self.temperature", max_tokens |-> "unset",
              top_p |-> "unset", frequency_penalty |-> "0.3",
              presence_penalty |-> "0.3", stream |-> FALSE]

\* llm.py 115-124 and 131-141: the keyword arguments of the provider call of
\* generate_stream_response
StreamRequest ==
    LET prompt == _create_prompt(llm_query, llm_context, username)
    IN  IF IsInstruct(model_name)
        THEN [endpoint |-> "completions", model |-> model_name,
              prompt |-> prompt, messages |-> << >>,
              temperature |-> "self.temperature", max_tokens |-> "1000",
              top_p |-> "1", frequency_penalty |-> "0.3",
              presence_penalty |-> "0.3", stream |-> TRUE]
        ELSE [endpoint |-> "chat.completions", model |-> model_name,
              prompt |-> << >>,
              messages |-> <<[role |-> "system",
                              content |-> DEFAULT_SYSTEM_PROMPT],
                             [role |-> "user", content |-> prompt]>>,
              temperature |-> "self.temperature", max_tokens |-> "unset",
              top_p |-> "unset", frequency_penalty |-> "0.3",
              presence_penalty |-> "0.3", stream |-> TRUE]

InitLLM ==
    /\ model_name \in ModelNames
    /\ llm_query = "hello"
    /\ llm_context \in {"", "hi there"}
    /\ username = "bob"
    /\ provider_deltas \in SeqsUpTo(DeltaTexts, MaxDeltas)
    /\ provider_fail_at \in
          {<< >>} \cup {<<k>> : k \in 0..Len(provider_deltas)}
    /\ provider_error \in {"rate limit", "timeout"}
    /\ rag_provider_fails \in BOOLEAN
    /\ rag_calls = 0
    /\ rag_request = None
    /\ rag_result = None
    /\ rag_error = None
    /\ pcRag = "call"
    /\ stream_request = None
    /\ stream_pos = 0
    /\ events = << >>
    /\ pcStream = "start"
    /\ consumer = "idle"
    \* the other components are idle
    /\ IdleChunker /\ IdleContext /\ IdleEmbed /\ IdleStore /\ IdleSearch
    /\ IdleQuery
    /\ IdleSim
    /\ IdleBackfill
    /\ IdleWiring

\* llm.py 68: the completions path strips the text; llm.py 86: the chat
\* path returns message.content as it is
RagContent(full) == IF IsInstruct(model_name) THEN Strip(full) ELSE full

\* response.usage of the provider's answer to the non-streaming call
ProviderUsage ==
    LET prompt_tokens     == IF llm_context = "" THEN 1 ELSE 2
        completion_tokens == Len(Concat(provider_deltas))
    IN  [prompt_tokens     |-> prompt_tokens,
         completion_tokens |-> completion_tokens,
         total_tokens      |-> prompt_tokens + completion_tokens]

\* a usage dictionary with the two counts exchanged
RagUsageSwapped(u) ==
    [prompt_tokens     |-> u.completion_tokens,
     completion_tokens |-> u.prompt_tokens,
     total_tokens      |-> u.total_tokens]

\* llm.py 69-73, 87-91: usage copied field by field from response.usage
RagUsage(u) ==
    [prompt_tokens     |-> u.prompt_tokens,
     completion_tokens |-> u.completion_tokens,
     total_tokens      |-> u.total_tokens]

\* llm.py 54-97: the provider answers, the dictionary is returned
RagCallOk ==
    /\ pcRag = "call"
    /\ ~rag_provider_fails
    /\ rag_calls' = rag_calls + 1
    /\ rag_request' = RagRequest
    /\ rag_result' = [content |-> RagContent(Concat(provider_deltas)),
                      model   |-> model_name,
                      usage   |-> RagUsage(ProviderUsage)]
    /\ pcRag' = "returned"
    /\ UNCHANGED <<model_name, llm_query, llm_context, username,
                   provider_deltas, provider_fail_at, provider_error,
                   rag_provider_fails, rag_error, stream_request, stream_pos,
                   events, pcStream, consumer>>
    /\ UNCHANGED exceptLLM

\* a handler that answers a failed call with an empty response
RagExceptEmptyResponse(e) ==
    [pc     |-> "returned",
     error  |-> None,
     result |-> [content |-> << >>, model |-> model_name,
                 usage |-> RagUsage(ProviderUsage)]]

\* llm.py 99-101: raise Exception(f"Error generating response: {str(e)}")
RagExcept(e) ==
    [pc     |-> "raised",
     error  |-> <<"Error generating response: ", e>>,
     result |-> rag_result]

\* llm.py 54-67/76-85, 99-101: the provider call raises
RagCallFail ==
    /\ pcRag = "call"
    /\ rag_provider_fails
    /\ rag_calls' = rag_calls + 1
    /\ rag_request' = RagRequest
    /\ pcRag' = RagExcept(provider_error).pc
    /\ rag_error' = RagExcept(provider_error).error
    /\ rag_result' = RagExcept(provider_error).result
    /\ UNCHANGED <<model_name, llm_query, llm_context, username,
                   provider_deltas, provider_fail_at, provider_error,
                   rag_provider_fails, stream_request, stream_pos, events,
                   pcStream, consumer>>
    /\ UNCHANGED exceptLLM

\* a handler that ends the stream without an event
StreamExceptSilent(evs, e) == evs

\* llm.py 147-149: the handler yields one error event
StreamExcept(evs, e) == Append(evs, ErrorEvent(e))

streamUnchanged ==
    <<model_name, llm_query, llm_context, username, provider_deltas,
      provider_fail_at, provider_error, rag_provider_fails, rag_calls,
      rag_request, rag_result, rag_error, pcRag>>

\* a generator that runs as a background task, whatever the consumer does
DemandedAlways == TRUE

\* llm.py 103-149: generate_stream_response is an async generator; its body
\* runs only inside a consumer's request for the next event (__anext__)
Demanded == consumer = "waiting"

\* the consumer (async for over the generator) asks for the next event
ConsumerNext ==
    /\ consumer = "idle"
    /\ pcStream \in {"start", "iter"}
    /\ consumer' = "waiting"
    /\ UNCHANGED <<stream_request, stream_pos, events, pcStream>>
    /\ UNCHANGED streamUnchanged
    /\ UNCHANGED exceptLLM

\* the consumer goes away between two events; the generator stays suspended
\* at its yield (or unstarted) and is never resumed
ConsumerDisconnect ==
    /\ consumer = "idle"
    /\ pcStream \in {"start", "iter"}
    /\ consumer' = "stopped"
    /\ UNCHANGED <<stream_request, stream_pos, events, pcStream>>
    /\ UNCHANGED streamUnchanged
    /\ UNCHANGED exceptLLM

\* the consumer is cancelled while it waits for an event; CancelledError is
\* raised at the generator's await, is not an Exception (llm.py 147) and
\* ends the generator
ConsumerCancel ==
    /\ consumer = "waiting"
    /\ consumer' = "stopped"
    /\ pcStream' = "closed"
    /\ UNCHANGED <<stream_request, stream_pos, events>>
    /\ UNCHANGED streamUnchanged
    /\ UNCHANGED exceptLLM

\* llm.py 111-124/131-141: the streaming call is made and answers with a
\* stream
StreamCreateOk ==
    /\ Demanded
    /\ pcStream = "start"
    /\ stream_request' = StreamRequest
    /\ pcStream' = "iter"
    /\ UNCHANGED <<stream_pos, events, consumer>>
    /\ UNCHANGED streamUnchanged
    /\ UNCHANGED exceptLLM

\* llm.py 115/131, 147-149: the streaming call itself raises
StreamCreateFail ==
    /\ Demanded
    /\ pcStream = "start"
    /\ provider_fail_at = <<0>>
    /\ stream_request' = StreamRequest
    /\ events' = StreamExcept(events, provider_error)
    /\ pcStream' = "ended"
    /\ consumer' = "idle"
    /\ UNCHANGED stream_pos
    /\ UNCHANGED streamUnchanged
    /\ UNCHANGED exceptLLM

\* llm.py 125-128/142-145: the next chunk arrives; a chunk with text is
\* yielded to the consumer as a content event, one without is skipped and
\* the generator goes on to the next chunk
StreamChunk ==
    /\ Demanded
    /\ pcStream = "iter"
    /\ stream_pos < Len(provider_deltas)
    /\ provider_fail_at # <<stream_pos>>
    /\ LET t == provider_deltas[stream_pos + 1]
       IN  /\ events' = IF t # << >> THEN Append(events, ContentEvent(t))
                        ELSE events
           /\ consumer' = IF t # << >> THEN "idle" ELSE consumer
    /\ stream_pos' = stream_pos + 1
    /\ UNCHANGED <<stream_request, pcStream>>
    /\ UNCHANGED streamUnchanged
    /\ UNCHANGED exceptLLM

\* llm.py 125/142, 147-149: reading the stream raises
StreamChunkFail ==
    /\ Demanded
    /\ pcStream = "iter"
    /\ provider_fail_at = <<stream_pos>>
    /\ events' = StreamExcept(events, provider_error)
    /\ pcStream' = "ended"
    /\ consumer' = "idle"
    /\ UNCHANGED <<stream_request, stream_pos>>
    /\ UNCHANGED streamUnchanged
    /\ UNCHANGED exceptLLM

\* llm.py 125/142, 146: the stream is exhausted and the generator returns
\* without yielding anything further
StreamEnd ==
    /\ Demanded
    /\ pcStream = "iter"
    /\ stream_pos = Len(provider_deltas)
    /\ provider_fail_at # <<stream_pos>>
    /\ pcStream' = "ended"
    /\ consumer' = "idle"
    /\ UNCHANGED <<stream_request, stream_pos, events>>
    /\ UNCHANGED streamUnchanged
    /\ UNCHANGED exceptLLM

NextLLM ==
    \/ RagCallOk
    \/ RagCallFail
    \/ ConsumerNext
    \/ ConsumerDisconnect
    \/ ConsumerCancel
    \/ StreamCreateOk
    \/ StreamCreateFail
    \/ StreamChunk
    \/ StreamChunkFail
    \/ StreamEnd

(***************************************************************************)
(* Properties of LLMProcessor (SpecLLM)                                    *)
(***************************************************************************)
\* the non-empty texts among the first n chunks of the provider's stream
RECURSIVE NonEmptyDeltas(_)
NonEmptyDeltas(n) ==
    IF n = 0 THEN << >>
    ELSE NonEmptyDeltas(n - 1)
         \o (IF provider_deltas[n] = << >> THEN << >>
             ELSE <<provider_deltas[n]>>)

\* the texts of the content events among evs, in order
RECURSIVE ContentTexts(_)
ContentTexts(evs) ==
    IF evs = << >> THEN << >>
    ELSE (IF EventPayload(Head(evs)).key = "content"
          THEN <<EventPayload(Head(evs)).value>> ELSE << >>)
         \o ContentTexts(Tail(evs))

\* C14: when the provider's stream delivers k non-empty texts and then
\* fails, the generator yields exactly k content events carrying those
\* texts in order, then exactly one error event, and nothing after it.
C14_ContentThenOneError ==
    /\ \A n \in 1..Len(events) :
          EventPayload(events[n]).key = "error" =>
              /\ n = Len(events)
              /\ pcStream = "ended"
    /\ (pcStream = "ended" /\ provider_fail_at # << >>) =>
          LET delivered == NonEmptyDeltas(provider_fail_at[1])
              k == Len(delivered)
          IN  /\ Len(events) = k + 1
              /\ \A n \in 1..k :
                    /\ EventPayload(events[n]).key = "content"
                    /\ EventPayload(events[n]).value = delivered[n]
              /\ EventPayload(events[k + 1]).key = "error"
              /\ EventPayload(events[k + 1]).value = <<provider_error>>

\* the provider fails after two texts and a chunk without text (k = 2), one
\* of the texts holding a character JSON has to escape
C14_Witness ==
    /\ pcStream = "ended"
    /\ provider_fail_at = <<3>>
    /\ Len(events) = 3
    /\ \E n \in 1..3 : provider_deltas[n] = << >>
    /\ \E n \in 1..3 : provider_deltas[n] = <<"\"">>

\* C24: the generator pulls a chunk from the provider's stream and produces
\* an event only while its consumer is waiting for the next event; once the
\* consumer has stopped, it stays stopped, no further chunk is pulled and no
\* event is produced.
C24_PullOnlyOnDemand ==
    [][/\ consumer # "waiting" => UNCHANGED <<pcStream, stream_pos, events>>
       /\ consumer = "stopped" => consumer' = "stopped"]_vars

\* the consumer went away after the first content event, with chunks of the
\* provider's stream left unread
C24_Witness ==
    /\ consumer = "stopped"
    /\ pcStream = "iter"
    /\ Len(events) = 1
    /\ stream_pos = 1
    /\ Len(provider_deltas) = 3
    /\ provider_fail_at = << >>

\* C15: the events of a stream that ends without failure end with exactly
\* one "complete" marker, which is not a content event and is the last
\* event.
C15_CompleteMarker ==
    (pcStream = "ended" /\ provider_fail_at = << >>) =>
        /\ events # << >>
        /\ EventPayload(events[Len(events)]).key = "complete"
        /\ \A n \in 1..(Len(events) - 1) :
              EventPayload(events[n]).key # "complete"

\* C16: when the provider call of generate_rag_response fails, the call
\* raises an error that wraps the provider's error and returns no response.
C16_FailureRaisesWrapped ==
    (rag_provider_fails /\ pcRag # "call") =>
        /\ pcRag = "raised"
        /\ rag_result = None
        /\ rag_error = <<"Error generating response: ", provider_error>>

\* the non-streaming call failed on a timeout of the provider
C16_Witness ==
    /\ rag_provider_fails
    /\ pcRag = "raised"
    /\ provider_error = "timeout"
    /\ rag_request.stream = FALSE

\* C28: for every model identifier generate_rag_response issues exactly one
\* provider call, completion-style (one prompt string, no messages) exactly
\* when the identifier contains "instruct" and chat-style (a system and a
\* user message) otherwise; a returned response has the same shape on both
\* paths: content, the model identifier, and usage with prompt_tokens,
\* completion_tokens and total_tokens of the provider's response.
C28_CallShapeAndResponseShape ==
    /\ pcRag = "call" => rag_calls = 0
    /\ pcRag \in {"returned", "raised"} =>
          /\ rag_calls = 1
          /\ rag_request.model = model_name
          /\ rag_request.prompt # << >>
                <=> "instruct" \in {model_name[n] : n \in 1..Len(model_name)}
          /\ rag_request.prompt # << >> =>
                /\ rag_request.endpoint = "completions"
                /\ rag_request.messages = << >>
                /\ rag_request.prompt
                      = _create_prompt(llm_query, llm_context, username)
          /\ rag_request.prompt = << >> =>
                /\ rag_request.endpoint = "chat.completions"
                /\ Len(rag_request.messages) = 2
                /\ rag_request.messages[1].role = "system"
                /\ rag_request.messages[2].role = "user"
                /\ rag_request.messages[2].content
                      = _create_prompt(llm_query, llm_context, username)
    /\ pcRag = "returned" =>
          /\ DOMAIN rag_result = {"content", "model", "usage"}
          /\ rag_result.model = model_name
          /\ DOMAIN rag_result.usage
                = {"prompt_tokens", "completion_tokens", "total_tokens"}
          /\ rag_result.usage = ProviderUsage
          /\ Strip(rag_result.content) = Strip(Concat(provider_deltas))

\* a chat model answered with a text of three characters to a prompt with
\* context
C28_Witness ==
    /\ pcRag = "returned"
    /\ ~IsInstruct(model_name)
    /\ rag_request.endpoint = "chat.completions"
    /\ rag_result.usage.completion_tokens = 3
    /\ rag_result.usage.prompt_tokens = 2
    /\ rag_result.usage.total_tokens = 5

\* C17: on the same arguments and the same provider output, the texts of the
\* content events, concatenated in order, equal the content of the
\* non-streaming response up to leading and trailing whitespace, and both
\* calls send the same prompt to the same endpoint with the same parameters
\* (apart from the stream flag).
C17_StreamEqualsResponse ==
    (pcRag = "returned" /\ pcStream = "ended" /\ provider_fail_at = << >>) =>
        /\ Strip(Concat(ContentTexts(events))) = Strip(rag_result.content)
        /\ [stream_request EXCEPT !.stream = FALSE] = rag_request

\* an instruct model whose output starts with a blank, which the
\* non-streaming call strips, and is delivered in three chunks
C17_Witness ==
    /\ pcRag = "returned"
    /\ pcStream = "ended"
    /\ provider_fail_at = << >>
    /\ IsInstruct(model_name)
    /\ Len(events) = 3
    /\ provider_deltas[1] = <<" ">>
    /\ rag_result.content = <<"a", "\"">>

(***************************************************************************)
(* EmbeddingGenerator.compute_similarity.  Vectors have integer            *)
(* coordinates.  The quotient dot / (norm1 * norm2) is kept as the pair of *)
(* dot and the square of the divisor; a floating-point division 0 / 0 is   *)
(* not-a-number, and numpy reports it with a warning, not an exception.    *)
(***************************************************************************)
\* dimension of the vectors enumerated
MaxDim == 2
\* coordinates are -MaxCoord..MaxCoord
MaxCoord == 1

Vectors == [1..MaxDim -> (0 - MaxCoord)..MaxCoord]

RECURSIVE DotUpTo(_, _, _)
DotUpTo(v, w, n) ==
    IF n = 0 THEN 0 ELSE DotUpTo(v, w, n - 1) + v[n] * w[n]

\* np.dot(v, w)
dot(v, w) == DotUpTo(v, w, Len(v))

\* np.linalg.norm(v) squared
norm2(v) == dot(v, v)

\* embeddings.py 69-71: np.dot(e1, e2) / (norm(e1) * norm(e2))
compute_similarity(e1, e2) ==
    IF norm2(e1) * norm2(e2) = 0
    THEN [kind |-> "nan"]
    ELSE [kind |-> "number", dot |-> dot(e1, e2),
          divisor2 |-> norm2(e1) * norm2(e2)]

InitSim ==
    /\ embedding1 \in Vectors
    /\ embedding2 \in Vectors
    /\ similarity_result = [kind |-> "none"]
    /\ pcSim = "call"
    \* the other components are idle
    /\ IdleChunker /\ IdleContext /\ IdleEmbed /\ IdleStore /\ IdleSearch
    /\ IdleQuery /\ IdleLLM
    /\ IdleBackfill
    /\ IdleWiring

\* embeddings.py 63-71: the quotient is returned, whatever it is
ComputeSimilarity ==
    /\ pcSim = "call"
    /\ similarity_result' = compute_similarity(embedding1, embedding2)
    /\ pcSim' = "returned"
    /\ UNCHANGED <<embedding1, embedding2>>
    /\ UNCHANGED exceptSim

NextSim == ComputeSimilarity

\* C23: with a zero vector as either argument compute_similarity fails with
\* an error; it never returns a number or not-a-number.
C23_ZeroVectorRejected ==
    (pcSim # "call" /\ (norm2(embedding1) = 0 \/ norm2(embedding2) = 0)) =>
        /\ pcSim = "raised"
        /\ similarity_result.kind \notin {"number", "nan"}

(***************************************************************************)
(* The bulk backfill: scripts/process_existing_messages.py,                *)
(* process_messages.  A message is its id and the number of tokens of its  *)
(* content (0 for a blank content).  The chunker is the MessageChunker     *)
(* handed in, with its chunk_size and chunk_overlap; create_chunks is      *)
(* followed through its window loop, which for some texts never ends.      *)
(* The table message_chunks is a set of rows with fresh identifiers, as    *)
(* the INSERT of store_chunks produces them.  The backfill may be stopped  *)
(* anywhere and run again over the same messages.                          *)
(***************************************************************************)
\* most messages handed to process_messages
MaxMessages == 2
\* runs of the backfill over the same messages
MaxRuns == 2
\* largest chunk_size of the backfill's chunker
MaxBackfillSize == 2

\* token counts of the message contents enumerated: blank, one chunk, more
\* than MaxBackfillSize tokens
ContentTokens == {0, 1, MaxBackfillSize + 1}

\* messages have distinct ids (the primary key of table messages)
MessageLists ==
    {<< >>} \cup
    UNION {[1..n -> ContentTokens] : n \in 1..MaxMessages}

\* chunker.py 67-91: the number of chunks the while loop appends before it
\* ends, from window start st with cnt chunks appended; << >> when the
\* start stops advancing and the loop never ends
RECURSIVE WindowLoop(_, _, _)
WindowLoop(len, st, cnt) ==
    LET end  == Min(st + chunk_size, len)
        next == NextStart(end)
    IN  IF ~(next < len) THEN <<cnt + 1>>
        ELSE IF next <= st THEN << >>
        ELSE WindowLoop(len, next, cnt + 1)

\* chunker.py 37-91: the number of chunks create_chunks returns for a text
\* of len tokens, << >> when it does not return
create_chunks(len) ==
    IF len = 0 THEN <<0>>
    ELSE IF len <= chunk_size THEN <<1>>
    ELSE WindowLoop(len, 0, 0)

InitBackfill ==
    /\ messages \in MessageLists
    /\ msg_index = 0
    /\ msg_chunks = 0
    /\ processed = 0
    /\ run = 1
    /\ message_chunks = {}
    /\ row_id = 1
    /\ backfillLog = << >>
    /\ pcBackfill = "for"
    \* the chunker handed to process_messages
    /\ chunk_size \in 1..MaxBackfillSize
    /\ chunk_overlap \in 0..1
    /\ text = << >> /\ metadata = None /\ tokens = << >> /\ start = 0
    /\ chunk_index = 0 /\ chunks = << >> /\ windows = << >>
    /\ pcChunker = "idle"
    \* the other components are idle
    /\ IdleContext /\ IdleEmbed /\ IdleStore /\ IdleSearch /\ IdleQuery
    /\ IdleLLM /\ IdleSim
    /\ IdleWiring

Logged(event) ==
    Append(backfillLog, [run |-> run, message |-> msg_index', event |-> event])

\* process_existing_messages.py 74: the loop takes the next message
ForNext ==
    /\ pcBackfill = "for"
    /\ msg_index < Len(messages)
    /\ msg_index' = msg_index + 1
    /\ backfillLog' = Logged("visit")
    /\ pcBackfill' = "create_chunks"
    /\ UNCHANGED <<messages, msg_chunks, processed, run, message_chunks,
                   row_id>>
    /\ UNCHANGED exceptBackfill

\* process_existing_messages.py 74: the list is exhausted
ForEnd ==
    /\ pcBackfill = "for"
    /\ msg_index = Len(messages)
    /\ pcBackfill' = "done"
    /\ UNCHANGED <<messages, msg_index, msg_chunks, processed, run,
                   message_chunks, row_id, backfillLog>>
    /\ UNCHANGED exceptBackfill

\* process_existing_messages.py 77-92: metadata and create_chunks; no
\* chunks: continue
CreateChunksReturns ==
    /\ pcBackfill = "create_chunks"
    /\ create_chunks(messages[msg_index]) # << >>
    /\ msg_chunks' = create_chunks(messages[msg_index])[1]
    /\ pcBackfill' = IF msg_chunks' = 0 THEN "for" ELSE "generate_embeddings"
    /\ UNCHANGED <<messages, msg_index, processed, run, message_chunks,
                   row_id, backfillLog>>
    /\ UNCHANGED exceptBackfill

\* chunker.py 71-89 under process_existing_messages.py 86: the window loop
\* of create_chunks never ends; process_messages stays in this call
CreateChunksLoopsForever ==
    /\ pcBackfill = "create_chunks"
    /\ create_chunks(messages[msg_index]) = << >>
    /\ pcBackfill' = "in create_chunks"
    /\ UNCHANGED <<messages, msg_index, msg_chunks, processed, run,
                   message_chunks, row_id, backfillLog>>
    /\ UNCHANGED exceptBackfill

\* chunker.py 73-85 under process_existing_messages.py 86, 115-117: the
\* endless loop appends a chunk per iteration; when the allocator gives up
\* with MemoryError, an Exception, the message is given up.  Whether that
\* happens before the process is killed for its memory is not determined.
CreateChunksMemoryError ==
    /\ pcBackfill = "in create_chunks"
    /\ backfillLog' = Append(backfillLog,
          [run |-> run, message |-> msg_index, event |-> "error"])
    /\ pcBackfill' = "for"
    /\ UNCHANGED <<messages, msg_index, msg_chunks, processed, run,
                   message_chunks, row_id>>
    /\ UNCHANGED exceptBackfill

\* process_existing_messages.py 77-89, 115-117: building the metadata or
\* chunking raises; the message is given up
CreateChunksFail ==
    /\ pcBackfill = "create_chunks"
    /\ backfillLog' = Append(backfillLog,
          [run |-> run, message |-> msg_index, event |-> "error"])
    /\ pcBackfill' = "for"
    /\ UNCHANGED <<messages, msg_index, msg_chunks, processed, run,
                   message_chunks, row_id>>
    /\ UNCHANGED exceptBackfill

\* process_existing_messages.py 95: generate_embeddings returns
GenerateEmbeddingsOk ==
    /\ pcBackfill = "generate_embeddings"
    /\ backfillLog' = Append(backfillLog,
          [run |-> run, message |-> msg_index, event |-> "generate_embeddings"])
    /\ pcBackfill' = "store_chunks"
    /\ UNCHANGED <<messages, msg_index, msg_chunks, processed, run,
                   message_chunks, row_id>>
    /\ UNCHANGED exceptBackfill

\* process_existing_messages.py 95, 115-117: generate_embeddings raises
GenerateEmbeddingsFail ==
    /\ pcBackfill = "generate_embeddings"
    /\ backfillLog' = Append(backfillLog,
          [run |-> run, message |-> msg_index, event |-> "generate_embeddings"])
          \o <<[run |-> run, message |-> msg_index, event |-> "error"]>>
    /\ pcBackfill' = "for"
    /\ UNCHANGED <<messages, msg_index, msg_chunks, processed, run,
                   message_chunks, row_id>>
    /\ UNCHANGED exceptBackfill

\* storage.py 37-78: the rows store_chunks commits for the first n chunks of
\* message m, one INSERT and one commit per chunk, each row with a fresh id
InsertedRows(m, n) ==
    {[id |-> row_id + k, message_id |-> m, chunk_index |-> k, run |-> run] :
        k \in 0..(n - 1)}

\* process_existing_messages.py 98-104: store_chunks returns, the counter
\* is incremented
StoreChunksOk ==
    /\ pcBackfill = "store_chunks"
    /\ message_chunks' = message_chunks \cup InsertedRows(msg_index, msg_chunks)
    /\ row_id' = row_id + msg_chunks
    /\ processed' = processed + 1
    /\ backfillLog' = Append(backfillLog,
          [run |-> run, message |-> msg_index, event |-> "store_chunks"])
    /\ pcBackfill' = "for"
    /\ UNCHANGED <<messages, msg_index, msg_chunks, run>>
    /\ UNCHANGED exceptBackfill

\* process_existing_messages.py 98-101, 115-117 and storage.py 80-82:
\* store_chunks raises at its k-th chunk, the chunks before it committed
StoreChunksFail ==
    /\ pcBackfill = "store_chunks"
    /\ \E k \in 0..(msg_chunks - 1) :
          /\ message_chunks' = message_chunks \cup InsertedRows(msg_index, k)
          /\ row_id' = row_id + k
    /\ backfillLog' = Append(backfillLog,
          [run |-> run, message |-> msg_index, event |-> "store_chunks"])
          \o <<[run |-> run, message |-> msg_index, event |-> "error"]>>
    /\ pcBackfill' = "for"
    /\ UNCHANGED <<messages, msg_index, msg_chunks, processed, run>>
    /\ UNCHANGED exceptBackfill

\* process_existing_messages.py 119-144: the script is run again over the
\* same messages, after a run that completed or was stopped anywhere
RunAgain ==
    /\ run < MaxRuns
    /\ run' = run + 1
    /\ msg_index' = 0
    /\ msg_chunks' = 0
    /\ processed' = 0
    /\ pcBackfill' = "for"
    /\ UNCHANGED <<messages, message_chunks, row_id, backfillLog>>
    /\ UNCHANGED exceptBackfill

\* the steps of process_messages itself
StepBackfill ==
    \/ ForNext
    \/ ForEnd
    \/ CreateChunksReturns
    \/ CreateChunksLoopsForever
    \/ CreateChunksFail
    \/ GenerateEmbeddingsOk
    \/ GenerateEmbeddingsFail
    \/ StoreChunksOk
    \/ StoreChunksFail

NextBackfill ==
    \/ ForNext
    \/ ForEnd
    \/ CreateChunksReturns
    \/ CreateChunksLoopsForever
    \/ CreateChunksFail
    \/ GenerateEmbeddingsOk
    \/ GenerateEmbeddingsFail
    \/ StoreChunksOk
    \/ StoreChunksFail
    \/ CreateChunksMemoryError
    \/ RunAgain

(***************************************************************************)
(* Properties of the backfill (SpecBackfill)                               *)
(***************************************************************************)
\* C22: after any number of runs of the backfill over the same messages,
\* completed or stopped with partial progress, the table holds at most one
\* chunk row per (owning message, chunk_index).
C22_BackfillIdempotent ==
    \A a \in message_chunks, b \in message_chunks :
        (a.message_id = b.message_id /\ a.chunk_index = b.chunk_index)
            => a.id = b.id

\* the events logged for message m in the current run
EventsOf(m) ==
    SelectSeq(backfillLog, LAMBDA e : e.run = run /\ e.message = m)

\* the messages of the current run whose store_chunks call returned
Stored ==
    {m \in 1..Len(messages) :
        /\ Len(EventsOf(m)) >= 1
        /\ EventsOf(m)[Len(EventsOf(m))].event = "store_chunks"
        /\ (m < msg_index \/ pcBackfill \in {"for", "done"})}

\* what C30 says of every state of a run: each message is visited at most
\* once and in list order, a message without chunks gets no embedding or
\* storage call, and processed counts the messages whose store_chunks call
\* returned
ConfinedSoFar ==
    /\ \A m \in 1..Len(messages) :
          /\ Len(SelectSeq(EventsOf(m), LAMBDA e : e.event = "visit"))
                = IF m <= msg_index THEN 1 ELSE 0
          /\ messages[m] = 0 =>
                \A n \in 1..Len(EventsOf(m)) :
                    EventsOf(m)[n].event \in {"visit", "error"}
    /\ processed = Cardinality(Stored)
    /\ pcBackfill = "done" => msg_index = Len(messages)

\* C30: a failure while chunking, embedding or storing one message is
\* confined to it: every message of the list is visited exactly once,
\* messages without chunks are skipped without embedding or storage call,
\* processed counts exactly the messages whose store_chunks call succeeded,
\* and the loop ends.
C30_FailuresConfined ==
    /\ []ConfinedSoFar
    /\ <>(pcBackfill = "done")

(***************************************************************************)
(* Specifications                                                          *)
(***************************************************************************)
SpecChunker == InitChunker /\ [][NextChunker]_vars

SpecContext == InitContext /\ [][NextContext]_vars

SpecEmbed == InitEmbed /\ [][NextEmbed]_vars

SpecStore == InitStore /\ [][NextStore]_vars

SpecStore2 == InitStore2 /\ [][NextStore2]_vars

SpecSearch == InitSearch /\ [][NextSearch]_vars

SpecQuery == InitQuery /\ [][NextQuery]_vars

SpecQueryRepo == InitQueryRepo /\ [][NextQueryRepo]_vars

SpecLLM == InitLLM /\ [][NextLLM]_vars

SpecSim == InitSim /\ [][NextSim]_vars

\* process_messages is one coroutine that the event loop keeps running;
\* nothing obliges anyone to run the script again
SpecBackfill ==
    InitBackfill /\ [][NextBackfill]_vars /\ WF_vars(StepBackfill)

====
